---------------------------- MODULE Spec2Model ----------------------------
(***************************************************************************)
(* A model of the SHARPpy sounding core (sharppy/sharptab): the quality    *)
(* check, the thermodynamic primitives, the interpolation layer, and the   *)
(* parcel lifting routine parcelx with the helpers it calls.               *)
(*                                                                         *)
(* Numbers.  The program computes in floating point.  Here every program   *)
(* number (hPa, m, degrees C, J/kg, kt) is a fixed-point integer counted   *)
(* in tenths: Fx(20) is 20.0, the literal 9980 is 998.0.  Divisions round  *)
(* to the nearest tenth.  The transcendental functions (x**ROCP, log, the  *)
(* Wobus polynomial, the vapour-pressure polynomial, the mixing-ratio      *)
(* inverse) are tabulated from the source formulas at fixed knots and      *)
(* interpolated linearly between them.                                     *)
(*                                                                         *)
(* Python values that are not numbers.  The source is Python 2: a function *)
(* that falls off its end returns None, None orders below every number,    *)
(* and arithmetic on None raises TypeError.  PyNone is that value.  Exc is *)
(* the outcome "an exception was raised" (TypeError, ZeroDivisionError,    *)
(* ValueError); an operator whose argument is Exc is Exc.                  *)
(***************************************************************************)
EXTENDS Integers, Sequences, FiniteSets, TLC

VARIABLES
    prof,   \* the Profile object: [gSndg, gNumLevels, sfc]
    call,   \* the call being made: the routine's name and its arguments
    pc,     \* position of the call: "start", a loop position, "done", "raised"
    ret,    \* the value returned (parcelx: [kind, val]; else a number or pair)
    pcl,    \* the Parcel object parcelx builds
    loc     \* parcelx's local variables

vars == <<prof, call, pc, ret, pcl, loc>>

---------------------------------------------------------------------------
(* Fixed-point arithmetic                                                  *)

\* The program number n, in tenths.
Fx(n) == n * 10

\* Python's None (interp.py falls off the end of its scan).
PyNone == -2000000000

\* A raised exception, as a value.
Exc == -2000000001

\* Not a number: None or an exception.
NotNum(x) == x <= PyNone

Abs(x) == IF x < 0 THEN -x ELSE x

Max2(a, b) == IF a >= b THEN a ELSE b

Min2(a, b) == IF a <= b THEN a ELSE b

\* a / b rounded to the nearest integer (b # 0).
RDiv(a, b) ==
    IF b > 0 THEN (2 * a + b) \div (2 * b)
    ELSE (2 * (-a) + (-b)) \div (2 * (-b))

\* The range the products of the model stay in.
Sat(x) == Min2(999999999, Max2(-999999999, x))

\* a * b / c, rounded (c # 0); the factors lose a digit where the product
\* would leave the 32-bit range.
RECURSIVE MulDiv(_, _, _)
MulDiv(a, b, c) ==
    IF Abs(a) <= 1000000000 \div Max2(1, Abs(b)) THEN Sat(RDiv(a * b, c))
    ELSE IF RDiv(c, 10) = 0
    THEN IF ((a < 0) # (b < 0)) # (c < 0) THEN -999999999 ELSE 999999999
    ELSE IF Abs(b) >= Abs(a) THEN MulDiv(a, RDiv(b, 10), RDiv(c, 10))
    ELSE MulDiv(RDiv(a, 10), b, RDiv(c, 10))

\* Python's int(x) of a float: truncation toward zero, to whole units.
PyInt(x) == IF x >= 0 THEN (x \div 10) * 10 ELSE -(((-x) \div 10) * 10)

\* a + b, a - b on Python values: TypeError on None.
Add(a, b) == IF NotNum(a) \/ NotNum(b) THEN Exc ELSE a + b

Sub(a, b) == IF NotNum(a) \/ NotNum(b) THEN Exc ELSE a - b

\* Piecewise-linear reading of a table with knots x0, x0+step, ...; the end
\* segments are extended linearly outside the knots.
TabLin(tab, x0, step, x) ==
    LET seg(k) == tab[k] + RDiv((tab[k + 1] - tab[k])
                                * (x - (x0 + (k - 1) * step)), step)
    IN  seg(Max2(1, Min2(Len(tab) - 1, (x - x0) \div step + 1)))

\* The inverse reading of an increasing table: the x with TabLin(x) = y.
TabInv(tab, x0, step, y) ==
    LET seg(k) == x0 + (k - 1) * step
                  + RDiv((y - tab[k]) * step, tab[k + 1] - tab[k])
        at(ks) == IF y < tab[1] THEN 1
                  ELSE IF ks = {} THEN Len(tab) - 1
                  ELSE CHOOSE j \in ks : TRUE
    IN  seg(at({j \in 1..(Len(tab) - 1) : tab[j] <= y /\ y < tab[j + 1]}))

\* (p/1000)**ROCP in units of 1e-4, at p = 0, 25, ..., 1100 hPa.
ExnerTab ==
    <<0, 3486, 4249, 4771, 5179, 5520, 5816, 6078, 6314,
      6530, 6730, 6915, 7089, 7253, 7409, 7556, 7697, 7831,
      7960, 8084, 8203, 8319, 8430, 8538, 8642, 8743, 8842,
      8938, 9031, 9122, 9211, 9298, 9382, 9465, 9546, 9626,
      9703, 9780, 9855, 9928, 10000, 10071, 10140, 10209, 10276>>

\* log(p) in units of 1e-4, at p = 25, 50, ..., 1100 hPa (first knot unused).
LnTab ==
    <<0, 32189, 39120, 43175, 46052, 48283, 50106, 51648, 52983,
      54161, 55215, 56168, 57038, 57838, 58579, 59269, 59915, 60521,
      61092, 61633, 62146, 62634, 63099, 63544, 63969, 64378, 64770,
      65147, 65511, 65862, 66201, 66529, 66846, 67154, 67452, 67742,
      68024, 68298, 68565, 68824, 69078, 69324, 69565, 69801, 70031>>

\* wobf(t) in hundredths of a degree, at t = -150, -145, ..., 250 C.
WobfTab ==
    <<0, 0, 0, 0, 0, 0, 0, 0, 0,
      0, 0, 0, 1, 2, 3, 4, 7, 11,
      17, 25, 36, 52, 71, 97, 130, 172, 227,
      297, 386, 500, 641, 814, 1019, 1254, 1513, 1789,
      2086, 2398, 2723, 3058, 3403, 3756, 4116, 4483, 4857,
      5238, 5625, 6018, 6416, 6820, 7229, 7642, 8060, 8482,
      8908, 9336, 9768, 10203, 10641, 11081, 11523, 11967, 12413,
      12861, 13311, 13762, 14215, 14669, 15125, 15581, 16040, 16499,
      16959, 17421, 17884, 18347, 18812, 19278, 19744, 20212, 20680>>

\* vappres(t) in tenths of a hPa, at t = -100, -95, ..., 60 C.
VappresTab ==
    <<0, 0, 0, 0, 0, 0, 0, 0, 0,
      0, 1, 1, 2, 3, 5, 8, 13, 19,
      29, 42, 61, 87, 123, 170, 234, 317, 424,
      562, 738, 959, 1234, 1575, 1993>>

\* temp_at_mixrat as a function of the vapour pressure e = w*p/(622+w):
\* the knots (tenths of a hPa) and the temperatures there (tenths of a degree).
MixratKnots ==
    <<1, 2, 3, 5, 7, 10, 15, 20, 30,
      40, 50, 60, 80, 100, 120, 150, 200, 250,
      300, 400, 500, 600, 800, 1000>>

MixratTemps ==
    <<-459, -394, -354, -302, -265, -226, -179, -144, -94,
      -57, -27, -2, 38, 70, 97, 131, 175, 211,
      241, 290, 330, 363, 416, 459>>

\* (p/1000)**ROCP, p > 0 in tenths of a hPa; result in units of 1e-4.
Exner(p) == Max2(1, TabLin(ExnerTab, 0, 250, p))

\* (num/den)**ROCP in units of 1e-4: ZeroDivisionError when den = 0,
\* ValueError when the base is negative.
PowROCP(num, den) ==
    IF den = 0 THEN Exc
    ELSE IF num = 0 THEN 0
    ELSE IF (num < 0) # (den < 0) THEN Exc
    ELSE RDiv(Exner(Abs(num)) * 10000, Exner(Abs(den)))

\* math.log(num/den) in units of 1e-4: ZeroDivisionError when den = 0,
\* ValueError when num/den <= 0.
LogRatio(num, den) ==
    IF den = 0 THEN Exc
    ELSE IF num = 0 \/ ((num < 0) # (den < 0)) THEN Exc
    ELSE TabLin(LnTab, 0, 250, Max2(250, Abs(num)))
         - TabLin(LnTab, 0, 250, Max2(250, Abs(den)))

\* p0 * math.exp(x), x in units of 1e-4 and p0 > 0.
MulExp(p0, x) ==
    TabInv(LnTab, 0, 250, TabLin(LnTab, 0, 250, Max2(250, p0)) + x)

---------------------------------------------------------------------------
(* constants.py, qc.py                                                     *)

RMISSD == Fx(-9999)

\* 273.15
ZEROCNK == 2732

\* 9.80665, in hundredths
G == 981

\* A validity check that also rejects the lower threshold.
QC_inclusive(val) == IF val <= -9980 \/ val > 2000000 THEN 0 ELSE 1

QC(val) == IF val < -9980 \/ val > 2000000 THEN 0 ELSE 1

qc(val) == IF val < -9980 \/ val > 2000000 THEN 0 ELSE 1

\* val / 1.94384449
KTS2MS(val) == IF NotNum(val) THEN Exc ELSE RDiv(val * 1000, 1944)

MS2KTS(val) == IF NotNum(val) THEN Exc ELSE RDiv(val * 1944, 1000)

---------------------------------------------------------------------------
(* thermo.py                                                               *)

\* wobf in hundredths of a degree, of a temperature in hundredths.
wobf_c(tc) == Max2(0, TabLin(WobfTab, -15000, 500, tc))

theta(p, t, p2) ==
    LET scaled(pw) == IF pw = Exc THEN Exc
                      ELSE RDiv((t + ZEROCNK) * pw, 10000) - ZEROCNK
    IN  IF Exc \in {p, t, p2} THEN Exc
        ELSE IF qc(p) = 0 \/ qc(t) = 0 \/ qc(p2) = 0 THEN RMISSD
        ELSE scaled(PowROCP(p2, p))

lcltemp(t, td) ==
    LET \* a8: -0.00219 + 1.173e-5 * s - 0.0000052 * t, in units of 1e-8
        \* b6: 1.2185 + 0.001278 * t + s * a8, in units of 1e-6
        dlt(s, b6) == RDiv(s * b6, 1000000)
        b6(s, a8)  == 1218500 + RDiv(1278 * t, 10) + RDiv(s * a8, 1000)
        a8(s)      == -219000 + RDiv(1173 * s, 10) - 52 * t
    IN  IF Exc \in {t, td} THEN Exc
        ELSE IF qc(t) = 0 \/ qc(td) = 0 THEN RMISSD
        ELSE t - dlt(t - td, b6(t - td, a8(t - td)))

thalvl(thta, t) ==
    LET level(tk, thk) ==
            IF tk = 0 THEN Exc                        \* thta / t
            ELSE IF thk = 0 \/ ((thk < 0) # (tk < 0)) THEN Exc
            ELSE TabInv(ExnerTab, 0, 250, RDiv(tk * 10000, thk))
    IN  IF Exc \in {thta, t} THEN Exc
        ELSE IF qc(t) = 0 \/ qc(thta) = 0 THEN RMISSD
        ELSE level(t + ZEROCNK, thta + ZEROCNK)

\* The guard of line 50 is a disjunction: one valid argument is enough to
\* compute.  A raised exception is the pair <<Exc, Exc>>.
drylift(p, t, td) ==
    LET pair(p2, t2) == IF Exc \in {t2, p2} THEN <<Exc, Exc>> ELSE <<p2, t2>>
        lift(t2)     == pair(thalvl(theta(p, t, Fx(1000)), t2), t2)
    IN  IF Exc \in {p, t, td} THEN <<Exc, Exc>>
        ELSE IF qc(p) = 1 \/ qc(t) = 1 \/ qc(td) = 1
        THEN lift(lcltemp(t, td))
        ELSE <<RMISSD, RMISSD>>

wobf(t) ==
    IF t = Exc THEN Exc
    ELSE IF qc(t) = 0 THEN RMISSD
    ELSE RDiv(wobf_c(t * 10), 10)

\* One pass of satlift's while loop and the passes after it.  Temperatures
\* in hundredths of a degree, rate in units of 1e-4, pwrp in units of 1e-4.
RECURSIVE satlift_loop(_, _, _, _, _, _, _)
satlift_loop(pwrp, thm, eor, t1, e1, t2, e2) ==
    LET first == (eor = 99900)
        again(rate, nt1, ne1, nt2, ne2) ==
            satlift_loop(pwrp, thm, RDiv(ne2 * rate, 10000), nt1, ne1, nt2, ne2)
        pass4(rate, nt1, ne1, nt2, e2a) ==
            again(rate, nt1, ne1, nt2, e2a + wobf_c(nt2) - wobf_c(e2a) - thm)
        pass3(rate, nt1, ne1, nt2) ==
            pass4(rate, nt1, ne1, nt2,
                  RDiv((nt2 + 27315) * 10000, pwrp) - 27315)
        pass2(rate, nt1, ne1) ==
            pass3(rate, nt1, ne1, nt1 - RDiv(ne1 * rate, 10000))
        pass1(rate, nt1) ==
            pass2(rate, nt1,
                  IF first THEN wobf_c(nt1) - wobf_c(thm) ELSE e2)
        pass0(rate) ==
            IF rate = Exc THEN Exc
            ELSE pass1(rate,
                       IF first
                       THEN RDiv((thm + 27315) * pwrp, 10000) - 27315
                       ELSE t2)
    IN  IF Abs(eor) - 10 <= 0 THEN t2 - eor
        ELSE pass0(IF first THEN 10000
                   ELSE IF e2 - e1 = 0 THEN Exc
                   ELSE RDiv((t2 - t1) * 10000, e2 - e1))

satlift(p, thm) ==
    LET tenths(r) == IF r = Exc THEN Exc ELSE RDiv(r, 10)
    IN  IF Exc \in {p, thm} THEN Exc
        ELSE IF qc(p) = 0 \/ qc(thm) = 0 THEN RMISSD
        ELSE IF p = Fx(1000) THEN thm
        ELSE IF p <= 0 THEN Exc     \* (p/1000.)**ROCP, or a division by it
        ELSE tenths(satlift_loop(Exner(p), thm * 10, 99900, 0, 0, 0, 0))

wetlift(p, t, p2) ==
    LET lift(thta) == IF thta = Exc THEN Exc
                      ELSE satlift(p2, thta - wobf(thta) + wobf(t))
    IN  IF Exc \in {p, t, p2} THEN Exc
        ELSE IF qc(p) = 0 \/ qc(t) = 0 \/ qc(p2) = 0 THEN RMISSD
        ELSE lift(theta(p, t, Fx(1000)))

\* The temperature at vapour pressure e (tenths of a hPa), e >= 1.
mixrat_temp(e) ==
    LET seg(k) == MixratTemps[k]
                  + RDiv((MixratTemps[k + 1] - MixratTemps[k])
                         * (e - MixratKnots[k]),
                         MixratKnots[k + 1] - MixratKnots[k])
        at(ks) == IF e < MixratKnots[1] THEN 1
                  ELSE IF ks = {} THEN Len(MixratKnots) - 1
                  ELSE CHOOSE j \in ks : TRUE
    IN  seg(at({j \in 1..(Len(MixratKnots) - 1) :
                   MixratKnots[j] <= e /\ e < MixratKnots[j + 1]}))

temp_at_mixrat(w, p) ==
    IF Exc \in {w, p} THEN Exc
    ELSE IF qc(w) = 0 \/ qc(p) = 0 THEN RMISSD
    ELSE IF 6220 + w = 0 THEN Exc                     \* w * p / (622. + w)
    ELSE IF w * p = 0 \/ ((w * p < 0) # (6220 + w < 0)) THEN Exc   \* log10
    ELSE mixrat_temp(Max2(1, RDiv(w * p, 6220 + w)))

\* Line 253 evaluates RMISSD and does not return it: the polynomial is
\* computed for every number.  Below the first knot it is 0 to the tenth.
vappres(t) ==
    IF t = Exc \/ t = PyNone THEN Exc
    ELSE Max2(0, TabLin(VappresTab, -1000, 50, t))

mixratio(p, t) ==
    LET \* x3: 0.02 * (t - 12.5 + 7500/p), in units of 1e-3 (saturating at
        \* 46: above it only for p below 3 hPa)
        \* wfw: 1 + 0.0000045 p + 0.0014 x x, in units of 1e-6
        ratio(fwesw) == IF p - fwesw = 0 THEN Exc
                        ELSE RDiv(RDiv(62197 * fwesw, 10), p - fwesw)
        wfw(x3)      == 1000000 + RDiv(45 * p, 100)
                        + RDiv(x3 * RDiv(14 * x3, 100), 100)
        x3           == Min2(46000, Max2(-46000,
                             2 * (t - 125 + RDiv(750000, p))))
    IN  IF Exc \in {p, t} THEN Exc
        ELSE IF qc(p) = 0 \/ qc(t) = 0 THEN RMISSD
        ELSE IF p = 0 THEN Exc                        \* 7500. / p
        ELSE ratio(RDiv(RDiv(wfw(x3), 100) * vappres(t), 10000))

\* Line 334 evaluates RMISSD and does not return it.
virtemp(p, t, td) ==
    LET \* 1 + w/eps and 1 + w with w = 0.001 * mr, in units of 1e-4
        scaled(mr) == IF mr = Exc \/ 10000 + mr = 0 THEN Exc
                      ELSE MulDiv(t + ZEROCNK, 10000 + RDiv(mr * 1000, 622),
                                  10000 + mr) - ZEROCNK
    IN  IF Exc \in {p, t, td} THEN Exc
        ELSE IF qc(td) = 0 THEN t
        ELSE IF t = PyNone THEN Exc                   \* t + ZEROCNK
        ELSE scaled(mixratio(p, td))

lifted(p, t, td, lev) ==
    LET wet(dl) == IF dl[1] = Exc THEN Exc ELSE wetlift(dl[1], dl[2], lev)
    IN  IF Exc \in {p, t, td, lev} THEN Exc
        ELSE IF qc(p) = 0 \/ qc(t) = 0 \/ qc(td) = 0 THEN RMISSD
        ELSE wet(drylift(p, t, td))

wetbulb(p, t, td) ==
    LET wet(dl) == IF dl[1] = Exc THEN Exc ELSE wetlift(dl[1], dl[2], p)
    IN  IF Exc \in {p, t, td} THEN Exc
        ELSE IF qc(p) = 0 \/ qc(t) = 0 \/ qc(td) = 0 THEN RMISSD
        ELSE wet(drylift(p, t, td))

thetaw(p, t, td) ==
    LET wet(dl) == IF dl[1] = Exc THEN Exc
                   ELSE wetlift(dl[1], dl[2], Fx(1000))
    IN  IF Exc \in {p, t, td} THEN Exc
        ELSE IF qc(p) = 0 \/ qc(t) = 0 \/ qc(td) = 0 THEN RMISSD
        ELSE wet(drylift(p, t, td))

\* Line 314 evaluates RMISSD and does not return it.
thetae(p, t, td) ==
    LET wet(dl) == IF dl[1] = Exc THEN Exc
                   ELSE theta(Fx(100), wetlift(dl[1], dl[2], Fx(100)),
                              Fx(1000))
    IN  IF Exc \in {p, t, td} THEN Exc
        ELSE wet(drylift(p, t, td))

\* Called by parcelx as thermo.ctok; thermo.py does not define it.
ctok(t) == IF NotNum(t) THEN Exc ELSE t + ZEROCNK

---------------------------------------------------------------------------
(* profile.py                                                              *)

pind == 0

zind == 1

tind == 2

tdind == 3

uind == 4

vind == 5

\* prof.gSndg[i][ind], with Python's indices from 0.
Sndg(pr, i, ind) == pr.gSndg[i + 1][ind + 1]

\* Profile.get_sfc over the level list g of n levels.
RECURSIVE first_temp(_, _, _)
first_temp(g, n, i) ==
    IF i >= n THEN 0
    ELSE IF QC(g[i + 1][tind + 1]) = 1 THEN i
    ELSE first_temp(g, n, i + 1)

\* get_sfc without line 68: soundings of fewer than 3 levels are scanned too.
get_sfc_any_length(g, n) == first_temp(g, n, 0)

get_sfc(g, n) == IF n < 3 THEN 0 ELSE first_temp(g, n, 0)

\* The Profile object built from the level list g (wind given as u, v).
Profile(g) == [gSndg |-> g, gNumLevels |-> Len(g), sfc |-> get_sfc(g, Len(g))]

---------------------------------------------------------------------------
(* interp.py                                                               *)

\* The scan of interp_from_hght from level i on, with the bottom pointer
\* bptr found so far.  The result records what the routine returns (val) and
\* how: "exact" (line 158), "interp" (lines 160-165, between bptr and tptr),
\* "none" (the loop ended: Python returns None), "raise" (nm1 / nm2 with
\* nm2 = 0).
RECURSIVE hght_scan(_, _, _, _, _)
hght_scan(h, pr, ind, i, bptr) ==
    IF i >= pr.gNumLevels
    THEN [kind |-> "none", val |-> PyNone, bptr |-> bptr, tptr |-> -1]
    ELSE IF QC(Sndg(pr, i, ind)) = 0 THEN hght_scan(h, pr, ind, i + 1, bptr)
    ELSE IF Sndg(pr, i, zind) < h THEN hght_scan(h, pr, ind, i + 1, i)
    ELSE IF Sndg(pr, i, zind) = h
    THEN [kind |-> "exact", val |-> Sndg(pr, i, ind), bptr |-> bptr, tptr |-> -1]
    ELSE LET tptr == i
             nm1  == h - Sndg(pr, bptr, zind)
             nm2  == Sndg(pr, tptr, zind) - Sndg(pr, bptr, zind)
         IN  IF nm2 = 0
             THEN [kind |-> "raise", val |-> Exc, bptr |-> bptr, tptr |-> tptr]
             ELSE [kind |-> "interp",
                   val  |-> Sndg(pr, bptr, ind)
                            + MulDiv(nm1,
                                     Sndg(pr, tptr, ind) - Sndg(pr, bptr, ind),
                                     nm2),
                   bptr |-> bptr, tptr |-> tptr]

interp_from_hght_scan(h, pr, ind) ==
    IF h = Exc THEN [kind |-> "raise", val |-> Exc, bptr |-> 0, tptr |-> -1]
    ELSE IF QC(h) = 0
    THEN [kind |-> "missing", val |-> RMISSD, bptr |-> 0, tptr |-> -1]
    ELSE hght_scan(h, pr, ind, 0, 0)

interp_from_hght(h, pr, ind) == interp_from_hght_scan(h, pr, ind).val

\* The scan of interp_from_pres, likewise; the interpolation is linear in
\* log(pressure).
\* Lines 191-197: the value between levels bptr and tptr.
pres_between(p, pr, ind, bptr, tptr) ==
    LET between(nm1, nm2, nm3) ==
            IF nm2 = Exc \/ nm3 = Exc \/ nm2 = 0
            THEN [kind |-> "raise", val |-> Exc, bptr |-> bptr, tptr |-> tptr]
            ELSE [kind |-> "interp",
                  val  |-> Sndg(pr, bptr, ind) + MulDiv(nm3, nm1, nm2),
                  bptr |-> bptr, tptr |-> tptr]
    IN  between(Sndg(pr, tptr, ind) - Sndg(pr, bptr, ind),
                LogRatio(Sndg(pr, bptr, pind), Sndg(pr, tptr, pind)),
                LogRatio(Sndg(pr, bptr, pind), p))

RECURSIVE pres_scan(_, _, _, _, _)
\* A scan that takes a level at the query pressure for the lower bracket.
pres_scan_no_exact(p, pr, ind, i, bptr) ==
    IF i >= pr.gNumLevels
    THEN [kind |-> "none", val |-> PyNone, bptr |-> bptr, tptr |-> -1]
    ELSE IF QC(Sndg(pr, i, ind)) = 0 THEN pres_scan(p, pr, ind, i + 1, bptr)
    ELSE IF Sndg(pr, i, pind) >= p THEN pres_scan(p, pr, ind, i + 1, i)
    ELSE pres_between(p, pr, ind, bptr, i)

pres_scan(p, pr, ind, i, bptr) ==
    IF i >= pr.gNumLevels
    THEN [kind |-> "none", val |-> PyNone, bptr |-> bptr, tptr |-> -1]
    ELSE IF QC(Sndg(pr, i, ind)) = 0 THEN pres_scan(p, pr, ind, i + 1, bptr)
    ELSE IF Sndg(pr, i, pind) > p THEN pres_scan(p, pr, ind, i + 1, i)
    ELSE IF Sndg(pr, i, pind) = p
    THEN [kind |-> "exact", val |-> Sndg(pr, i, ind), bptr |-> bptr, tptr |-> -1]
    ELSE pres_between(p, pr, ind, bptr, i)

interp_from_pres_scan(p, pr, ind) ==
    IF p = Exc THEN [kind |-> "raise", val |-> Exc, bptr |-> 0, tptr |-> -1]
    ELSE IF QC(p) = 0
    THEN [kind |-> "missing", val |-> RMISSD, bptr |-> 0, tptr |-> -1]
    ELSE pres_scan(p, pr, ind, 0, 0)

interp_from_pres(p, pr, ind) == interp_from_pres_scan(p, pr, ind).val

i_pres(h, pr) == interp_from_hght(h, pr, pind)

i_hght(p, pr) == interp_from_pres(p, pr, zind)

i_temp(p, pr) == interp_from_pres(p, pr, tind)

i_dwpt(p, pr) == interp_from_pres(p, pr, tdind)

i_vtmp(p, pr) == virtemp(p, i_temp(p, pr), i_dwpt(p, pr))

agl(h, pr) ==
    IF h = Exc THEN Exc
    ELSE IF QC(h) = 0 THEN RMISSD
    ELSE h - Sndg(pr, pr.sfc, zind)

msl(h, pr) ==
    IF h = Exc THEN Exc
    ELSE IF QC(h) = 0 THEN RMISSD
    ELSE h + Sndg(pr, pr.sfc, zind)

---------------------------------------------------------------------------
(* vector.py, winds.py                                                     *)

\* The integer square root of n >= 0, by Newton's iteration from r.
RECURSIVE SqrtFrom(_, _)
SqrtFrom(n, r) ==
    LET r2 == (r + n \div r) \div 2
    IN  IF r2 >= r THEN r ELSE SqrtFrom(n, r2)

Sqrt(n) ==
    IF n = 0 THEN 0
    ELSE SqrtFrom(n, IF n < 100 THEN Min2(n, 10) ELSE IF n < 10000 THEN 100
                     ELSE IF n < 1000000 THEN 1000
                     ELSE IF n < 100000000 THEN 10000 ELSE 46340)

mag(u, v) ==
    IF Exc \in {u, v} THEN Exc
    ELSE IF QC(u) = 0 \/ QC(v) = 0 THEN RMISSD
    ELSE Sqrt(Min2(Abs(u), 40000) * Min2(Abs(u), 40000)
              + Min2(Abs(v), 20000) * Min2(Abs(v), 20000))

\* The speed of comp2vec(u, v), its second component.
comp2vec_spd(u, v) ==
    IF Exc \in {u, v} THEN Exc
    ELSE IF QC(u) = 0 \/ QC(v) = 0 THEN RMISSD
    ELSE mag(u, v)

\* math.sin(math.radians(d)) in units of 1e-4, at d = 0, 15, ..., 360
\* degrees.
SinTab ==
    <<0, 2588, 5000, 7071, 8660, 9659, 10000, 9659, 8660, 7071, 5000, 2588,
      0, -2588, -5000, -7071, -8660, -9659, -10000, -9659, -8660, -7071,
      -5000, -2588, 0>>

\* math.tan(math.radians(d)) in units of 1e-4, at d = 0, 5, ..., 45 degrees.
TanTab == <<0, 875, 1763, 2679, 3640, 4663, 5774, 7002, 8391, 10000>>

\* Sine and cosine of d, 0 <= d < 3600 tenths of a degree, in units of 1e-4.
SinDeg(d) == TabLin(SinTab, 0, 150, d)

CosDeg(d) == TabLin(SinTab, 0, 150, (d + 900) % 3600)

\* vec2comp(dir, spd): the pair <<u, v>>; dir in tenths of a degree.
vec2comp(dir, spd) ==
    IF NotNum(dir) \/ NotNum(spd) THEN <<Exc, Exc>>
    ELSE IF QC(dir) = 0 \/ QC(spd) = 0 THEN <<RMISSD, RMISSD>>
    ELSE <<-MulDiv(spd, SinDeg(dir % 3600), 10000),
           -MulDiv(spd, CosDeg(dir % 3600), 10000)>>

\* The sign bit of the float v that vec2comp returns: v is spd * cos * -1,
\* and the cosine the program computes is negative for 90 < dir <= 270 and
\* positive elsewhere (never zero).  It tells -0.0 from 0.0 when spd is 0.
vec2comp_vneg(dir, spd) ==
    (spd >= 0) # (dir % 3600 > 900 /\ dir % 3600 <= 2700)

\* math.degrees(math.atan2(y, x)) in tenths of a degree, in (-1800, 1800];
\* xneg is the sign bit of x, which decides atan2(0, 0): 0 for x = 0.0 and
\* 180 for x = -0.0.
atan2_deg(y, x, xneg) ==
    LET side(a) == IF y < 0 THEN -a ELSE a
        half(a) == side(IF x > 0 \/ (x = 0 /\ ~xneg) THEN a ELSE 1800 - a)
    IN  IF x = 0 /\ y = 0 THEN half(0)
        ELSE IF Abs(y) <= Abs(x)
        THEN half(TabInv(TanTab, 0, 50, MulDiv(Abs(y), 10000, Abs(x))))
        ELSE half(900 - TabInv(TanTab, 0, 50, MulDiv(Abs(x), 10000, Abs(y))))

\* comp2vec without line 44: a negative direction is returned as it is.
comp2vec_unturned(u, v, vneg) ==
    IF Exc \in {u, v} THEN <<Exc, Exc>>
    ELSE IF QC(u) = 0 \/ QC(v) = 0 THEN <<RMISSD, RMISSD>>
    ELSE <<atan2_deg(-u, -v, ~vneg), mag(u, v)>>

\* comp2vec(u, v): the pair <<dir, spd>>; vneg is the sign bit of the float v.
comp2vec(u, v, vneg) ==
    LET turn(d) == IF d < 0 THEN d + 3600 ELSE d
    IN  IF Exc \in {u, v} THEN <<Exc, Exc>>
        ELSE IF QC(u) = 0 \/ QC(v) = 0 THEN <<RMISSD, RMISSD>>
        ELSE <<turn(atan2_deg(-u, -v, ~vneg)), mag(u, v)>>

\* One pass of mean_wind's loop (lines 45-48) at pressure s.p (whole hPa):
\* the sums usum, vsum (tenths of kt hPa) and wgt; s.err once a pass raised.
mean_wind_pass(s, step, pr) ==
    LET add(u, v) ==
            IF NotNum(u) \/ NotNum(v) THEN [s EXCEPT !.err = TRUE]
            ELSE [s EXCEPT !.p = @ + step,
                           !.usum = Sat(@ + Sat(u) * s.p),
                           !.vsum = Sat(@ + Sat(v) * s.p),
                           !.wgt = @ + s.p]
    IN  add(interp_from_pres(Fx(s.p), pr, uind),
            interp_from_pres(Fx(s.p), pr, vind))

\* n passes of the loop from s on, the first half before the second.
RECURSIVE mean_wind_loop(_, _, _, _)
mean_wind_loop(s, n, step, pr) ==
    IF s.err \/ n <= 0 THEN s
    ELSE IF n = 1 THEN mean_wind_pass(s, step, pr)
    ELSE LET half == mean_wind_loop(s, n \div 2, step, pr)
         IN  mean_wind_loop(half, n - n \div 2, step, pr)

\* pinc of mean_wind and mean_wind_npw (lines 32, 74), in whole hPa:
\* int((pbot - ptop) / psteps), psteps # 0.
wind_pinc(pbot, ptop, psteps) ==
    LET trunc(a, b) == IF a >= 0 THEN a \div b ELSE -((-a) \div b)
    IN  IF psteps > 0 THEN trunc(pbot - ptop, 10 * psteps)
        ELSE trunc(ptop - pbot, 10 * (-psteps))

\* len(range(start, stop, -pinc)), pinc # 0.
range_len(start, stop, pinc) ==
    IF pinc > 0 /\ start > stop THEN (start - stop + pinc - 1) \div pinc
    ELSE IF pinc < 0 /\ start < stop
    THEN (stop - start - pinc - 1) \div (-pinc)
    ELSE 0

\* Lines 34-40 and 50 of mean_wind with stu = stv = 0: the average of the
\* winds at pbot and ptop, weighted by pressure.
mean_wind_two_point(pbot, ptop, pr) ==
    LET mean(u1, u2, v1, v2) ==
            IF NotNum(u1) \/ NotNum(u2) \/ NotNum(v1) \/ NotNum(v2)
                 \/ pbot + ptop = 0
            THEN <<Exc, Exc>>
            ELSE <<RDiv(u1 * pbot + u2 * ptop, pbot + ptop),
                   RDiv(v1 * pbot + v2 * ptop, pbot + ptop)>>
    IN  mean(interp_from_pres(pbot, pr, uind), interp_from_pres(ptop, pr, uind),
             interp_from_pres(pbot, pr, vind), interp_from_pres(ptop, pr, vind))

\* mean_wind(pbot, ptop, profile, psteps) with stu = stv = 0: the pair
\* <<mnu, mnv>>, or <<Exc, Exc>>.
mean_wind_steps(pbot, ptop, pr, psteps) ==
    LET mean(sums) ==
            IF sums.err \/ sums.wgt = 0 THEN <<Exc, Exc>>
            ELSE <<RDiv(sums.usum, sums.wgt), RDiv(sums.vsum, sums.wgt)>>
        loop(start, stop, pinc) ==
            IF pinc = 0 THEN <<Exc, Exc>>             \* range() step 0
            ELSE mean(mean_wind_loop([p |-> start, usum |-> 0, vsum |-> 0,
                                      wgt |-> 0, err |-> FALSE],
                                     range_len(start, stop, pinc), -pinc, pr))
    IN  IF NotNum(pbot) \/ NotNum(ptop) \/ psteps = 0 THEN <<Exc, Exc>>
        ELSE IF psteps < 1 THEN mean_wind_two_point(pbot, ptop, pr)
        ELSE loop(PyInt(pbot) \div 10, PyInt(ptop) \div 10,
                  wind_pinc(pbot, ptop, psteps))

\* mean_wind(pbot, ptop, profile) with the default psteps = 20.
mean_wind(pbot, ptop, pr) == mean_wind_steps(pbot, ptop, pr, 20)

\* The first level from i on whose height passed through interp.msl is not
\* below bound (the loops of lines 194 and 196), or the level count when
\* the loop runs off the end of the sounding (IndexError).
RECURSIVE helicity_scan(_, _, _)
helicity_scan(pr, i, bound) ==
    IF i >= pr.gNumLevels THEN i
    ELSE IF msl(Sndg(pr, i, zind), pr) < bound
    THEN helicity_scan(pr, i + 1, bound)
    ELSE i

\* lyrh of lines 210 and 220 with the sum of the two products.
helicity_lyrh_sum(sru1, srv1, sru2, srv2) == (sru2 * srv1) + (sru1 * srv2)

\* lyrh of lines 210 and 220, in hundredths of a m2/s2 (the winds are in
\* tenths of a m/s).
helicity_lyrh(sru1, srv1, sru2, srv2) == (sru2 * srv1) - (sru1 * srv2)

\* Lines 211-214: lyrh is added to phel or nhel, and the wind <<sru2, srv2>>
\* becomes the wind of the next cross product.  used collects the levels
\* whose wind entered a cross product (-1: no sounding level).
helicity_add(s, i, sru2, srv2) ==
    LET add(lyrh) ==
            [s EXCEPT !.phel = IF lyrh > 0 THEN @ + lyrh ELSE @,
                      !.nhel = IF lyrh > 0 THEN @ ELSE @ + lyrh,
                      !.sru1 = sru2, !.srv1 = srv2,
                      !.used = IF i >= 0 THEN @ \cup {i} ELSE @]
    IN  IF NotNum(sru2) \/ NotNum(srv2) \/ NotNum(s.sru1) \/ NotNum(s.srv1)
        THEN [s EXCEPT !.err = TRUE]
        ELSE add(helicity_lyrh(s.sru1, s.srv1, sru2, srv2))

\* The loop of lines 204-214 from level i to level uptr.
RECURSIVE helicity_levels(_, _, _, _, _, _)
helicity_levels(s, pr, i, uptr, stu, stv) ==
    IF s.err \/ i > uptr THEN s
    ELSE IF i >= pr.gNumLevels THEN [s EXCEPT !.err = TRUE]
    ELSE IF QC(Sndg(pr, i, uind)) = 1 /\ QC(Sndg(pr, i, vind)) = 1
    THEN helicity_levels(helicity_add(s, i, KTS2MS(Sndg(pr, i, uind) - stu),
                                      KTS2MS(Sndg(pr, i, vind) - stv)),
                         pr, i + 1, uptr, stu, stv)
    ELSE helicity_levels(s, pr, i + 1, uptr, stu, stv)

\* Lines 185-201 of helicity(lower, upper, profile, stu, stv): the bounds,
\* the pointers and the wind at the interpolated bottom.
helicity_bounds(lower, upper, pr, stu, stv) ==
    LET wind(plower, pupper, lptr, uptr) ==
            [plower |-> plower, pupper |-> pupper, lptr |-> lptr,
             uptr |-> uptr, phel |-> 0, nhel |-> 0, used |-> {},
             err |-> lptr >= pr.gNumLevels \/ uptr >= pr.gNumLevels,
             sru1 |-> KTS2MS(Sub(interp_from_pres(plower, pr, uind), stu)),
             srv1 |-> KTS2MS(Sub(interp_from_pres(plower, pr, vind), stv))]
        ptrs(lo, up, lptr) ==
            wind(interp_from_hght(lo, pr, pind), interp_from_hght(up, pr, pind),
                 lptr, helicity_scan(pr, lptr, up))
        scan(lo, up) == ptrs(lo, up, helicity_scan(pr, 0, lo))
    IN  scan(msl(lower, pr), msl(upper, pr))

\* Lines 204-224: the loop over the levels and the segment to the
\* interpolated top.
helicity_integrate(s, pr, stu, stv) ==
    LET top(t) ==
            helicity_add(t, -1,
                         KTS2MS(Sub(interp_from_pres(s.pupper, pr, uind), stu)),
                         KTS2MS(Sub(interp_from_pres(s.pupper, pr, vind), stv)))
    IN  IF s.err THEN s
        ELSE top(helicity_levels(s, pr, s.lptr, s.uptr, stu, stv))

\* One pass of mean_wind_npw's loop (lines 87-90) at pressure s.p (whole
\* hPa): the sums of the winds and the number of samples.
mean_wind_npw_pass(s, step, pr) ==
    LET add(u, v) ==
            IF NotNum(u) \/ NotNum(v) THEN [s EXCEPT !.err = TRUE]
            ELSE [s EXCEPT !.p = @ + step, !.usum = Sat(@ + Sat(u)),
                           !.vsum = Sat(@ + Sat(v)), !.wgt = @ + 1]
    IN  add(interp_from_pres(Fx(s.p), pr, uind),
            interp_from_pres(Fx(s.p), pr, vind))

\* n passes of the loop from s on, the first half before the second.
RECURSIVE mean_wind_npw_loop(_, _, _, _)
mean_wind_npw_loop(s, n, step, pr) ==
    IF s.err \/ n <= 0 THEN s
    ELSE IF n = 1 THEN mean_wind_npw_pass(s, step, pr)
    ELSE LET half == mean_wind_npw_loop(s, n \div 2, step, pr)
         IN  mean_wind_npw_loop(half, n - n \div 2, step, pr)

\* mean_wind_npw(pbot, ptop, profile, psteps) with stu = stv = 0, psteps > 0.
\* Lines 76-82 read the wind at pbot four times and divide by 2.
mean_wind_npw(pbot, ptop, pr, psteps) ==
    LET mean(sums) ==
            IF sums.err \/ sums.wgt = 0 THEN <<Exc, Exc>>
            ELSE <<RDiv(sums.usum, sums.wgt), RDiv(sums.vsum, sums.wgt)>>
        thin(u, v) ==
            IF NotNum(u) \/ NotNum(v) THEN <<Exc, Exc>>
            ELSE <<RDiv(MulDiv(u, pbot, 10) + MulDiv(u, ptop, 10), 2),
                   RDiv(MulDiv(v, pbot, 10) + MulDiv(v, ptop, 10), 2)>>
        loop(start, stop, pinc) ==
            IF pinc < 1
            THEN thin(interp_from_pres(pbot, pr, uind),
                      interp_from_pres(pbot, pr, vind))
            ELSE mean(mean_wind_npw_loop([p |-> start, usum |-> 0, vsum |-> 0,
                                          wgt |-> 0, err |-> FALSE],
                                         range_len(start, stop, pinc), -pinc,
                                         pr))
    IN  IF NotNum(pbot) \/ NotNum(ptop) THEN <<Exc, Exc>>
        ELSE loop(PyInt(pbot) \div 10, PyInt(ptop) \div 10,
                  wind_pinc(pbot, ptop, psteps))

\* wind_shear(pbot, ptop, profile): the pair <<shu, shv>>.
wind_shear(pbot, ptop, pr) ==
    <<Sub(interp_from_pres(ptop, pr, uind), interp_from_pres(pbot, pr, uind)),
      Sub(interp_from_pres(ptop, pr, vind), interp_from_pres(pbot, pr, vind))>>

\* Lines 332-348 and 365-381 of the Bunkers storm motions with the
\* deviation d (tenths of the unit of the winds) and the side (1: right
\* mover, -1: left mover): the motion <<stu, stv>> with the mean wind mn6 and
\* the shear shr6 it was computed from; err when a statement raised
\* (a shear of speed 0 divides by zero).
bunkers_motion(pr, d, side) ==
    LET motion(mn6, shr6, spd) ==
            IF Exc \in {mn6[1], mn6[2], shr6[1], shr6[2], spd} \/ spd = 0
            THEN [err |-> TRUE, st |-> <<Exc, Exc>>, mn6 |-> mn6,
                  shr6 |-> shr6]
            ELSE [err |-> FALSE, mn6 |-> mn6, shr6 |-> shr6,
                  st |-> <<mn6[1] + side * MulDiv(d, shr6[2], spd),
                           mn6[2] - side * MulDiv(d, shr6[1], spd)>>]
        speed(mn6, shr6) == motion(mn6, shr6, comp2vec_spd(shr6[1], shr6[2]))
        layer(pbot, p6km) ==
            speed(mean_wind_npw(pbot, p6km, pr, 25), wind_shear(pbot, p6km, pr))
    IN  layer(Sndg(pr, pr.sfc, pind),
              interp_from_hght(msl(Fx(6000), pr), pr, pind))

\* bunkers_right_mover(profile): d = 7.5 (line 331).
bunkers_right_mover(pr) == bunkers_motion(pr, 75, 1)

\* bunkers_left_mover(profile): d = MS2KTS(7.5) (line 364).
bunkers_left_mover(pr) == bunkers_motion(pr, MS2KTS(75), -1)

---------------------------------------------------------------------------
(* params.py                                                               *)

\* The fields of a Parcel, as Parcel.__init__ sets them.  limaxpress is the
\* attribute line 687 creates (None here: not yet an attribute); flag is
\* lplvals.flag.
Parcel(lower, upper, pres, temp, dwpt) ==
    [pres |-> pres, temp |-> temp, dwpt |-> dwpt,
     blayer |-> lower, tlayer |-> upper, flag |-> 5,
     lclpres |-> RMISSD, lclhght |-> RMISSD,
     lfcpres |-> RMISSD, lfchght |-> RMISSD,
     elpres |-> RMISSD, elhght |-> RMISSD,
     mplpres |-> RMISSD, mplhght |-> RMISSD,
     bplus |-> RMISSD, bminus |-> RMISSD, bfzl |-> RMISSD,
     b3km |-> RMISSD, b6km |-> RMISSD,
     p0c |-> RMISSD, pm10c |-> RMISSD, pm20c |-> RMISSD, pm30c |-> RMISSD,
     hght0c |-> RMISSD, hghtm10c |-> RMISSD, hghtm20c |-> RMISSD,
     hghtm30c |-> RMISSD,
     wm10c |-> RMISSD, wm20c |-> RMISSD, wm30c |-> RMISSD,
     li5 |-> RMISSD, li3 |-> RMISSD,
     brnshear |-> RMISSD, brn |-> RMISSD,
     limax |-> RMISSD, limaxpres |-> RMISSD, limaxpress |-> PyNone,
     cap |-> RMISSD, cappres |-> RMISSD]

RECURSIVE temp_lvl_scan(_, _, _)
temp_lvl_scan(temp, pr, i) ==
    LET between(nm2, nm3) ==
            IF nm2 = 0 \/ nm3 = Exc THEN Exc
            ELSE MulExp(Sndg(pr, i - 1, pind),
                        MulDiv(temp - Sndg(pr, i - 1, tind), nm3, nm2))
    IN  IF i >= pr.gNumLevels THEN RMISSD
        ELSE IF QC(Sndg(pr, i, tind)) = 1 /\ Sndg(pr, i, tind) <= temp
        THEN IF i = 0 THEN RMISSD
             ELSE IF Sndg(pr, i, tind) = temp THEN Sndg(pr, i, pind)
             ELSE between(Sndg(pr, i, tind) - Sndg(pr, i - 1, tind),
                          LogRatio(Sndg(pr, i, pind), Sndg(pr, i - 1, pind)))
        ELSE temp_lvl_scan(temp, pr, i + 1)

temp_lvl(temp, pr) == temp_lvl_scan(temp, pr, 0)

\* What bulk_rich assigns: <<brnshear, brn>>, or <<Exc, Exc>> when it
\* raises.  The parcel's flag is 5, so the layer starts 500 m below the
\* parcel (lines 781-789).
bulk_rich(p, pr) ==
    LET brn(shear) ==
            IF shear = 0 THEN <<Exc, Exc>>             \* bplus / brnshear
            ELSE <<shear, RDiv(p.bplus * 10, shear)>>
        square(ms) == brn(RDiv(ms * ms, 20))
        shear(pbot, ptop, pl, mnl, mnu) ==
            IF pl = Exc \/ mnl[1] = Exc \/ mnu[1] = Exc THEN <<Exc, Exc>>
            ELSE IF QC(p.bplus) = 0 \/ QC(mnl[1]) = 0 \/ QC(mnu[1]) = 0
            THEN <<RMISSD, RMISSD>>
            ELSE square(KTS2MS(comp2vec_spd(mnu[1] - mnl[1], mnu[2] - mnl[2])))
        winds(pbot, ptop, pl) ==
            IF ptop = Exc THEN <<Exc, Exc>>
            ELSE IF QC(pbot) = 0 \/ QC(ptop) = 0 THEN <<RMISSD, RMISSD>>
            ELSE shear(pbot, ptop, pl, mean_wind(pbot, pl, pr),
                       mean_wind(pbot, ptop, pr))
        layer(pbot, h1) ==
            winds(pbot,
                  IF NotNum(h1) THEN Exc ELSE i_pres(h1 + Fx(6000), pr),
                  IF NotNum(h1) THEN Exc ELSE i_pres(h1 + Fx(500), pr))
        bottom(pbot) == layer(pbot, i_hght(pbot, pr))
        checked(pb0) ==
            bottom(IF pb0 = Exc \/ QC(pb0) = 0 THEN Sndg(pr, pr.sfc, pind)
                   ELSE pb0)
        below(h0) ==
            checked(IF NotNum(h0) THEN RMISSD          \* except: (line 785)
                    ELSE i_pres(h0 - Fx(500), pr))
    IN  below(i_hght(p.pres, pr))

\* (tvp - te) / thermo.ctok(tk), in units of 1e-5.
TdefBy(tvp, te, tk) ==
    IF NotNum(tvp) \/ NotNum(te) \/ NotNum(tk) THEN Exc
    ELSE IF ctok(tk) = 0 THEN Exc
    ELSE MulDiv(tvp - te, 100000, ctok(tk))

Tdef(tvp, te) == TdefBy(tvp, te, te)

\* G * (tdefa + tdefb) / 2. * dz, in tenths of a J/kg (dz in tenths of a m).
Lyr(tdefa, tdefb, dz) ==
    IF NotNum(tdefa) \/ NotNum(tdefb) \/ NotNum(dz) THEN Exc
    ELSE MulDiv(MulDiv(Sat(dz), Sat(tdefa) + Sat(tdefb), 20000), G, 1000)

\* The frame of a running parcelx is the record [p, l] of the fields of pcl
\* and of the local variables; l.err is set once a statement has raised.
Raise(f) == [f EXCEPT !.l.err = TRUE]

\* The else branch of lines 468-471 without the test of line 471.
negative_any_pressure(lyre, pe2) == lyre <= 0

\* Lines 468-471: the layer energy is added to totn (not positive, and the
\* level is below the 500 hPa level).
negative_below_500(lyre, pe2) == lyre <= 0 /\ pe2 > Fx(500)

\* Lines 457-483 for level f.l.i (its temperature is valid): the energy of the
\* layer from the last level to this one and the running totals.
layer_energy(f, pr) ==
    LET pe2 == Sndg(pr, f.l.i, pind)
        h2  == Sndg(pr, f.l.i, zind)
        set(te2, tp2, tv2, tdef1, tdef2, lyre, mli, mcap) ==
            IF Exc \in {te2, tp2, tv2, tdef1, tdef2, lyre, mli, mcap}
            THEN Raise(f)
            ELSE [f EXCEPT
                    !.l.lyrlast = f.l.lyre,
                    !.l.lyre = lyre,
                    !.l.totp = IF lyre > 0 THEN Sat(f.l.totp + lyre)
                               ELSE f.l.totp,
                    !.l.totn = IF negative_below_500(lyre, pe2)
                               THEN Sat(f.l.totn + lyre) ELSE f.l.totn,
                    !.l.li_max = IF mli > f.l.li_max THEN mli ELSE f.l.li_max,
                    !.l.li_maxpres = IF mli > f.l.li_max THEN pe2
                                     ELSE f.l.li_maxpres,
                    !.l.cap_strength = IF mcap > f.l.cap_strength THEN mcap
                                       ELSE f.l.cap_strength,
                    !.l.cap_strengthpres = IF mcap > f.l.cap_strength THEN pe2
                                           ELSE f.l.cap_strengthpres,
                    !.l.tote = Sat(f.l.tote + lyre),
                    !.l.pelast = f.l.pe1,
                    !.l.pe1 = pe2, !.l.h1 = h2, !.l.te1 = te2, !.l.tp1 = tp2,
                    !.l.pe2 = pe2, !.l.h2 = h2, !.l.te2 = te2, !.l.tp2 = tp2]
        index(te2, tp2, tv2, tdef1, tdef2, lyre, mli) ==
            set(te2, tp2, tv2, tdef1, tdef2, lyre, mli, Sub(te2, mli))
        energy(te2, tp2, tv2, tdef1, tdef2) ==
            index(te2, tp2, tv2, tdef1, tdef2,
                  Lyr(tdef1, tdef2, Sub(h2, f.l.h1)), Sub(tv2, te2))
        deficit(te2, tp2, tv2) ==
            energy(te2, tp2, tv2,
                   Tdef(virtemp(f.l.pe1, f.l.tp1, f.l.tp1), f.l.te1),
                   Tdef(tv2, te2))
        lift(te2, tp2) == deficit(te2, tp2, virtemp(pe2, tp2, tp2))
    IN  lift(i_vtmp(pe2, pr), wetlift(f.l.pe1, f.l.tp1, pe2))

\* Lines 486-516: the top of the specified layer.
top_of_layer(f, pr) ==
    LET pe3  == f.l.pe1
        h3   == f.l.h1
        te3  == f.l.te1
        tp3  == f.l.tp1
        lyr0 == f.l.lyre
        bp0  == IF lyr0 > 0 THEN f.l.totp - lyr0 ELSE f.l.totp
        bm0  == IF lyr0 > 0 THEN f.l.totn
                ELSE IF f.l.pe2 > Fx(500) THEN f.l.totn + lyr0 ELSE f.l.totn
        pe2  == f.l.upper
        set(h2, te2, tp2, bp1, bm1) ==
            [f EXCEPT
               !.l.pe3 = pe3, !.l.h3 = h3, !.l.te3 = te3, !.l.tp3 = tp3,
               !.l.pe2 = pe2, !.l.h2 = h2, !.l.te2 = te2, !.l.tp2 = tp2,
               !.p.bplus = bp1,
               !.p.bminus = IF bp1 = 0 THEN 0 ELSE bm1]
        total(h2, te2, tp2, tdef3, tdef2, lyrf) ==
            IF Exc \in {h2, te2, tp2, tdef3, tdef2, lyrf} THEN Raise(f)
            ELSE set(h2, te2, tp2,
                     IF lyrf > 0 THEN Sat(bp0 + lyrf) ELSE bp0,
                     IF lyrf <= 0 /\ pe2 > Fx(500) THEN Sat(bm0 + lyrf)
                     ELSE bm0)
        energy(h2, te2, tp2, tdef3, tdef2) ==
            total(h2, te2, tp2, tdef3, tdef2, Lyr(tdef3, tdef2, Sub(h2, h3)))
        lift(h2, te2, tp2) ==
            energy(h2, te2, tp2, Tdef(virtemp(pe3, tp3, tp3), te3),
                   Tdef(virtemp(pe2, tp2, tp2), te2))
    IN  IF f.l.err \/ ~(f.l.i >= f.l.uptr /\ QC(f.p.bplus) = 0) THEN f
        ELSE lift(i_hght(pe2, pr), i_vtmp(pe2, pr), wetlift(pe3, tp3, pe2))

\* Lines 519-601: the energy below a temperature level (thr: the
\* temperature, fld: the field, plev and hlev: pressure and height of the
\* level).  The freezing level compares plev with pe3, the others with the
\* LCL pressure.
temp_level(f, pr, fld, thr, plev, hlev) ==
    LET pe3    == f.l.pelast
        w0     == IF f.l.lyre > 0 THEN f.l.totp - f.l.lyre ELSE f.l.totp
        zero   == QC(plev) = 0
                  \/ plev > (IF fld = "bfzl" THEN pe3 ELSE f.p.lclpres)
        refine == ~zero /\ QC(f.l.pe2) = 1
        set(h3, te3, tp3, te2, tp2, tdef3, tdef2, lyrf) ==
            IF Exc \in {h3, te3, tp3}
               \/ (refine /\ Exc \in {te2, tp2, tdef3, tdef2, lyrf})
            THEN Raise(f)
            ELSE [f EXCEPT
                    !.l.pe3 = pe3, !.l.h3 = h3, !.l.te3 = te3, !.l.tp3 = tp3,
                    !.l.te2 = IF refine THEN te2 ELSE f.l.te2,
                    !.l.tp2 = IF refine THEN tp2 ELSE f.l.tp2,
                    !.p[fld] = IF zero THEN 0
                               ELSE IF refine /\ lyrf > 0 THEN Sat(w0 + lyrf)
                               ELSE w0]
        energy(h3, te3, tp3, te2, tp2, tdef3, tdef2) ==
            set(h3, te3, tp3, te2, tp2, tdef3, tdef2,
                Lyr(tdef3, tdef2, Sub(hlev, h3)))
        deficit(h3, te3, tp3, te2, tp2) ==
            energy(h3, te3, tp3, te2, tp2,
                   Tdef(virtemp(pe3, tp3, tp3), te3),
                   Tdef(virtemp(f.l.pe2, tp2, tp2), te2))
        lift(h3, te3, tp3) ==
            deficit(h3, te3, tp3, i_vtmp(f.l.pe2, pr),
                    wetlift(pe3, tp3, f.l.pe2))
    IN  IF f.l.err \/ ~(f.l.te2 < thr /\ QC(f.p[fld]) = 0) THEN f
        ELSE lift(i_hght(pe3, pr), i_vtmp(pe3, pr),
                  wetlift(f.l.pe1, f.l.tp1, pe3))

\* Lines 604-648: the energy below hkm AGL (3 km, 6 km).
km_level(f, pr, fld, hkm) ==
    LET pe3 == f.l.pelast
        w0  == IF f.l.lyre > 0 THEN f.l.totp - f.l.lyre ELSE f.l.totp
        set(h3, te3, tp3, h2, pe2, te2, tp2, tdef3, tdef2, lyrf) ==
            IF Exc \in {h3, te3, tp3, pe2}
               \/ (QC(pe2) = 1 /\ Exc \in {te2, tp2, tdef3, tdef2, lyrf})
            THEN Raise(f)
            ELSE [f EXCEPT
                    !.l.pe3 = pe3, !.l.h3 = h3, !.l.te3 = te3, !.l.tp3 = tp3,
                    !.l.h2 = h2, !.l.pe2 = pe2,
                    !.l.te2 = IF QC(pe2) = 1 THEN te2 ELSE f.l.te2,
                    !.l.tp2 = IF QC(pe2) = 1 THEN tp2 ELSE f.l.tp2,
                    !.p[fld] = IF QC(pe2) = 1 /\ lyrf > 0 THEN Sat(w0 + lyrf)
                               ELSE w0]
        energy(h3, te3, tp3, h2, pe2, te2, tp2, tdef3, tdef2) ==
            set(h3, te3, tp3, h2, pe2, te2, tp2, tdef3, tdef2,
                Lyr(tdef3, tdef2, Sub(h2, h3)))
        deficit(h3, te3, tp3, h2, pe2, te2, tp2) ==
            energy(h3, te3, tp3, h2, pe2, te2, tp2,
                   Tdef(virtemp(pe3, tp3, tp3), te3),
                   Tdef(virtemp(pe2, tp2, tp2), te2))
        lift(h3, te3, tp3, h2, pe2) ==
            deficit(h3, te3, tp3, h2, pe2, i_vtmp(pe2, pr),
                    wetlift(pe3, tp3, pe2))
        top(h3, te3, tp3, h2) == lift(h3, te3, tp3, h2, i_pres(h2, pr))
        reached(h) ==
            IF h = Exc THEN Raise(f)
            ELSE IF ~(h >= hkm /\ QC(f.p[fld]) = 0) THEN f
            ELSE top(i_hght(pe3, pr), i_vtmp(pe3, pr),
                     wetlift(f.l.pe1, f.l.tp1, pe3), msl(hkm, pr))
    IN  IF f.l.err THEN f
        ELSE IF ~(f.p.lclhght < hkm) THEN [f EXCEPT !.p[fld] = 0]
        ELSE reached(agl(i_hght(f.l.pe2, pr), pr))

\* One test of the while condition of lines 656-658 (up: LFC) and 680-682
\* (EL) and, where it holds, the body: pe3 moves up 5 hPa while the
\* environment is warmer (LFC) or colder (EL) than the parcel lifted from
\* pe2.  s.pe3 is Exc once a pass raised, s.done once the loop is left.
level_pass(pe2, tp3, s, pr, up) ==
    LET test(env, wl, par) ==
            IF Exc \in {env, wl, par} THEN [pe3 |-> Exc, done |-> TRUE]
            ELSE IF (up /\ env > par) \/ (~up /\ env < par)
            THEN [s EXCEPT !.pe3 = @ - Fx(5)]
            ELSE [s EXCEPT !.done = TRUE]
        lift(wl) == test(i_vtmp(s.pe3, pr), wl, virtemp(s.pe3, wl, wl))
    IN  lift(wetlift(pe2, tp3, s.pe3))

\* n passes from s on, the first half before the second.
RECURSIVE level_passes(_, _, _, _, _, _)
level_passes(pe2, tp3, s, pr, up, n) ==
    IF s.done \/ n <= 0 THEN s
    ELSE IF n = 1 THEN level_pass(pe2, tp3, s, pr, up)
    ELSE LET half == level_passes(pe2, tp3, s, pr, up, n \div 2)
         IN  level_passes(pe2, tp3, half, pr, up, n - n \div 2)

\* The pressure the loop ends at, or Exc.  The loop is over before pe3 is
\* negative: wetlift raises there.
level_search(pe2, tp3, pe3, pr, up) ==
    IF NotNum(pe3) THEN Exc
    ELSE level_passes(pe2, tp3, [pe3 |-> pe3, done |-> FALSE], pr, up,
                      Max2(pe3, 0) \div Fx(5) + 2).pe3

\* The test of line 651 with a negative previous layer energy required.
lfc_sign_change_strict(lyre, lyrlast) == lyre >= 0 /\ lyrlast < 0

\* The test of line 651.
lfc_sign_change(lyre, lyrlast) == lyre >= 0 /\ lyrlast <= 0

\* The LFC block without the hack of lines 670-672 and with the search of
\* lines 656-658 begun at the pressure of the parcel instead of pelast.
lfc_possibility_unclamped(f, pr) ==
    LET cs == IF f.l.cap_strength < 0 THEN 0 ELSE f.l.cap_strength
        set(pe3, hg) ==
            IF pe3 = Exc \/ hg = Exc THEN Raise(f)
            ELSE [f EXCEPT
                    !.l.tp3 = f.l.tp1, !.l.te3 = f.l.te1, !.l.pe2 = f.l.pe1,
                    !.l.pe3 = pe3,
                    !.p.lfcpres = pe3,
                    !.p.lfchght = hg,
                    !.l.cinh_old = f.l.totn,
                    !.l.tote = 0,
                    !.l.lfcs = @ + 1,
                    !.p.elpres = RMISSD,
                    !.l.li_max = RMISSD,
                    !.l.cap_strength = cs,
                    !.p.cap = cs,
                    !.p.cappres = f.l.cap_strengthpres]
        found(pe3) == set(pe3, agl(i_hght(pe3, pr), pr))
    IN  IF f.l.err \/ ~lfc_sign_change(f.l.lyre, f.l.lyrlast) THEN f
        ELSE found(level_search(f.l.pe1, f.l.tp1, f.p.pres, pr, TRUE))

\* Lines 651-672: LFC possibility.  lfcs counts the times the block ran.
lfc_possibility(f, pr) ==
    LET cs == IF f.l.cap_strength < 0 THEN 0 ELSE f.l.cap_strength
        set(pe3, hg) ==
            IF pe3 = Exc \/ hg = Exc THEN Raise(f)
            ELSE [f EXCEPT
                    !.l.tp3 = f.l.tp1, !.l.te3 = f.l.te1, !.l.pe2 = f.l.pe1,
                    !.l.pe3 = pe3,
                    !.p.lfcpres = IF pe3 > f.p.lclpres THEN f.p.lclpres
                                  ELSE pe3,
                    !.p.lfchght = IF pe3 > f.p.lclpres THEN f.p.lclhght
                                  ELSE hg,
                    !.l.cinh_old = f.l.totn,
                    !.l.tote = 0,
                    !.l.lfcs = @ + 1,
                    !.p.elpres = RMISSD,
                    !.l.li_max = RMISSD,
                    !.l.cap_strength = cs,
                    !.p.cap = cs,
                    !.p.cappres = f.l.cap_strengthpres]
        found(pe3) == set(pe3, agl(i_hght(pe3, pr), pr))
    IN  IF f.l.err \/ ~lfc_sign_change(f.l.lyre, f.l.lyrlast) THEN f
        ELSE found(level_search(f.l.pe1, f.l.tp1, f.l.pelast, pr, TRUE))

\* Lines 675-687: EL possibility.
el_possibility(f, pr) ==
    LET set(pe3, hg) ==
            IF pe3 = Exc \/ hg = Exc THEN Raise(f)
            ELSE [f EXCEPT
                    !.l.tp3 = f.l.tp1, !.l.te3 = f.l.te1, !.l.pe2 = f.l.pe1,
                    !.l.pe3 = pe3,
                    !.p.elpres = pe3,
                    !.p.elhght = hg,
                    !.p.mplpres = RMISSD,
                    !.p.limax = -f.l.li_max,
                    !.p.limaxpress = f.l.li_maxpres]
        found(pe3) == set(pe3, agl(i_hght(pe3, pr), pr))
    IN  IF f.l.err \/ ~(f.l.lyre <= 0 /\ f.l.lyrlast >= 0) THEN f
        ELSE found(level_search(f.l.pe1, f.l.tp1, f.l.pelast, pr, FALSE))

\* One test of the while condition of lines 697-709 and, where it holds, the
\* body: pe2 moves up 1 hPa while the energy totx left above the EL is
\* positive.  s is the frame with the local totx.
mpl_pass(s, pr) ==
    LET f   == s.f
        pe2 == f.l.pe2 - Fx(1)
        set(te2, tp2, h2, tdef3, tdef2, lyrf) ==
            IF Exc \in {te2, tp2, h2, tdef3, tdef2, lyrf}
            THEN [s EXCEPT !.f = Raise(f), !.done = TRUE]
            ELSE [s EXCEPT !.f = [f EXCEPT !.l.pe2 = pe2, !.l.te2 = te2,
                                           !.l.tp2 = tp2, !.l.h2 = h2,
                                           !.l.tp3 = tp2, !.l.te3 = te2,
                                           !.l.pe3 = pe2],
                           !.totx = Sat(@ + lyrf)]
        energy(te2, tp2, h2, tdef3, tdef2) ==
            set(te2, tp2, h2, tdef3, tdef2, Lyr(tdef3, tdef2, Sub(h2, f.l.h3)))
        lift(te2, tp2, h2) ==
            energy(te2, tp2, h2,
                   Tdef(virtemp(f.l.pe3, f.l.tp3, f.l.tp3), f.l.te3),
                   Tdef(virtemp(pe2, tp2, tp2), te2))
    IN  IF s.totx <= 0 THEN [s EXCEPT !.done = TRUE]
        ELSE lift(i_vtmp(pe2, pr), wetlift(f.l.pe3, f.l.tp3, pe2),
                  i_hght(pe2, pr))

\* n passes from s on, the first half before the second.
RECURSIVE mpl_passes(_, _, _)
mpl_passes(s, pr, n) ==
    IF s.done \/ n <= 0 THEN s
    ELSE IF n = 1 THEN mpl_pass(s, pr)
    ELSE LET half == mpl_passes(s, pr, n \div 2)
         IN  mpl_passes(half, pr, n - n \div 2)

\* The frame the loop ends with.  The loop is over before pe2 is negative:
\* wetlift raises there.
mpl_loop(f, pr, totx) ==
    mpl_passes([f |-> f, totx |-> totx, done |-> FALSE], pr,
               Max2(f.l.pe2, 0) \div Fx(1) + 2).f

\* Lines 690-711: MPL possibility.
mpl_possibility(f, pr) ==
    LET pe3 == f.l.pelast
        set(g, hg) ==
            IF g.l.err THEN g
            ELSE IF hg = Exc THEN Raise(f)
            ELSE [g EXCEPT !.p.mplpres = g.l.pe2, !.p.mplhght = hg]
        found(g) == set(g, agl(i_hght(g.l.pe2, pr), pr))
        lift(h3, te3, tp3) ==
            IF Exc \in {h3, te3, tp3} THEN Raise(f)
            ELSE found(mpl_loop([f EXCEPT !.l.pe3 = pe3, !.l.h3 = h3,
                                          !.l.te3 = te3, !.l.tp3 = tp3,
                                          !.l.pe2 = f.l.pelast],
                                pr, f.l.tote - f.l.lyre))
    IN  IF f.l.err \/ ~(f.l.tote < 0 /\ QC(f.p.mplpres) = 0
                        /\ QC(f.p.elpres) = 1)
        THEN f
        ELSE lift(i_hght(pe3, pr), i_vtmp(pe3, pr),
                  wetlift(f.l.pe1, f.l.tp1, pe3))

\* The lifted index written at every level at or above plev: lines 714-723
\* without the test that the field is still missing.
lifted_index_unguarded(f, pr, fld, plev) ==
    LET set(a, b, li) == IF Exc \in {a, b, li} THEN Raise(f)
                         ELSE [f EXCEPT !.p[fld] = li]
        lift(a, b) == set(a, b, Sub(a, virtemp(plev, b, b)))
    IN  IF f.l.err \/ ~(Sndg(pr, f.l.i, pind) <= plev) THEN f
        ELSE lift(i_vtmp(plev, pr), wetlift(f.l.pe1, f.l.tp1, plev))

\* Lines 714-723: the lifted index at plev (500 hPa, 300 hPa).
lifted_index(f, pr, fld, plev) ==
    LET set(a, b, li) == IF Exc \in {a, b, li} THEN Raise(f)
                         ELSE [f EXCEPT !.p[fld] = li]
        lift(a, b) == set(a, b, Sub(a, virtemp(plev, b, b)))
    IN  IF f.l.err \/ ~(Sndg(pr, f.l.i, pind) <= plev /\ f.p[fld] = RMISSD)
        THEN f
        ELSE lift(i_vtmp(plev, pr), wetlift(f.l.pe1, f.l.tp1, plev))

\* Lines 456-724 for one level: the body of the ascent loop.
ascent_level(f, pr) ==
    IF QC(Sndg(pr, f.l.i, tind)) = 0 THEN f                   \* continue
    ELSE
    lifted_index(
      lifted_index(
        mpl_possibility(
          el_possibility(
            lfc_possibility(
              km_level(
                km_level(
                  temp_level(
                    temp_level(
                      temp_level(
                        temp_level(
                          top_of_layer(layer_energy(f, pr), pr),
                          pr, "bfzl", Fx(0), f.p.p0c, f.p.hght0c),
                        pr, "wm10c", Fx(-10), f.p.pm10c, f.p.hghtm10c),
                      pr, "wm20c", Fx(-20), f.p.pm20c, f.p.hghtm20c),
                    pr, "wm30c", Fx(-30), f.p.pm30c, f.p.hghtm30c),
                  pr, "b3km", Fx(3000)),
                pr, "b6km", Fx(6000)),
              pr),
            pr),
          pr),
        pr, "li5", Fx(500)),
      pr, "li3", Fx(300))

\* Lines 382-383: the top pp2 of the sub-layer with bottom pp.
mixing_top(pp, blupper) ==
    IF pp - Fx(10) < blupper THEN blupper ELSE pp - Fx(10)

\* One pass of the loop of lines 380-401 at pp = s.pp (tenths of a hPa, a
\* whole hPa): the negative energy s.totn below the LCL, Exc once a pass
\* raised; s.lyrs lists the sub-layers <<pp1, pp2>> of the passes so far.
mixing_pass(s, blupper, theta_parcel, blmr, pr) ==
    LET pp  == s.pp
        pp2 == mixing_top(pp, blupper)
        set(dz, tdef1, tdef2, lyre) ==
            IF Exc \in {dz, tdef1, tdef2, lyre} THEN [s EXCEPT !.totn = Exc]
            ELSE [s EXCEPT !.pp = @ - Fx(10),
                           !.lyrs = Append(@, <<pp, pp2>>),
                           !.totn = IF lyre < 0 THEN Sat(@ + lyre) ELSE @]
        energy(dz, tdef1, tdef2) == set(dz, tdef1, tdef2, Lyr(tdef1, tdef2, dz))
        deficit(tv_env_bot, tv_env_top) ==
            energy(Sub(i_hght(pp2, pr), i_hght(pp, pr)),
                   Tdef(virtemp(pp, theta_parcel, temp_at_mixrat(blmr, pp)),
                        tv_env_bot),
                   TdefBy(virtemp(pp2, theta_parcel,
                                  temp_at_mixrat(blmr, pp2)),
                          tv_env_top, tv_env_bot))
    IN  deficit(virtemp(pp, theta(pp, i_temp(pp, pr), Fx(1000)),
                        i_dwpt(pp, pr)),
                virtemp(pp2, theta(pp2, i_temp(pp2, pr), Fx(1000)),
                        i_dwpt(pp2, pr)))

\* n passes from s on, the first half before the second.
RECURSIVE mixing_passes(_, _, _, _, _, _)
mixing_passes(s, n, blupper, theta_parcel, blmr, pr) ==
    IF s.totn = Exc \/ n <= 0 THEN s
    ELSE IF n = 1 THEN mixing_pass(s, blupper, theta_parcel, blmr, pr)
    ELSE LET half == mixing_passes(s, n \div 2, blupper, theta_parcel, blmr, pr)
         IN  mixing_passes(half, n - n \div 2, blupper, theta_parcel, blmr, pr)

\* The loop over range(int(lower), int(blupper), -10), pp and b being
\* int(lower) and int(blupper) in tenths of a hPa: the record of totn (or
\* Exc) and of the sub-layers passed.
mixing_layer(pp, b, blupper, theta_parcel, blmr, pr, totn) ==
    mixing_passes([pp |-> pp, totn |-> totn, lyrs |-> <<>>],
                  IF pp > b THEN (pp - b + Fx(10) - 1) \div Fx(10) ELSE 0,
                  blupper, theta_parcel, blmr, pr)

\* gSndg[i][ind] with Python's index: -1 is the last level.
SndgPy(pr, i, ind) == Sndg(pr, IF i < 0 THEN i + pr.gNumLevels ELSE i, ind)

\* Lines 428-431: the first level not under lower.
RECURSIVE low_obs(_, _, _)
low_obs(pr, lower, i) ==
    IF Sndg(pr, i, pind) > lower /\ i # pr.gNumLevels - 1
    THEN low_obs(pr, lower, i + 1) ELSE i

\* Lines 432-434: the first level from i on with a dew point.
RECURSIVE dwpt_obs(_, _)
dwpt_obs(pr, i) ==
    IF QC(Sndg(pr, i, tdind)) = 0 /\ i # pr.gNumLevels - 1
    THEN dwpt_obs(pr, i + 1) ELSE i

\* Lines 435-437.
lowest_obs(pr, lower) ==
    LET i == dwpt_obs(pr, low_obs(pr, lower, 0))
    IN  IF Sndg(pr, i, pind) = lower /\ i # pr.gNumLevels - 1 THEN i + 1 ELSE i

\* Lines 440-443: the last level not over upper.
RECURSIVE high_obs(_, _, _, _)
high_obs(pr, upper, lptr, i) ==
    IF SndgPy(pr, i, pind) < upper /\ ~(i < lptr)
    THEN high_obs(pr, upper, lptr, i - 1) ELSE i

\* Lines 444-446.
highest_obs(pr, upper, lptr) ==
    LET i == high_obs(pr, upper, lptr, pr.gNumLevels - 1)
    IN  IF SndgPy(pr, i, pind) = upper /\ i > lptr THEN i - 1 ELSE i

\* The loops of lines 862-863 (927-928, 984-985): the first level from i on
\* that is not under lower, then the first with a valid field ind; the
\* level count when the loop runs off the end of the sounding (IndexError).
RECURSIVE layer_low_obs(_, _, _)
layer_low_obs(pr, lower, i) ==
    IF i >= pr.gNumLevels THEN i
    ELSE IF Sndg(pr, i, pind) > lower THEN layer_low_obs(pr, lower, i + 1)
    ELSE i

RECURSIVE layer_valid_obs(_, _, _)
layer_valid_obs(pr, ind, i) ==
    IF i >= pr.gNumLevels THEN i
    ELSE IF QC(Sndg(pr, i, ind)) = 0 THEN layer_valid_obs(pr, ind, i + 1)
    ELSE i

\* The loop of line 869 (934, 991): the last level not over upper; the index
\* passes below 0 to the levels counted from the end, and leaves the
\* sounding below -gNumLevels (IndexError).
RECURSIVE layer_high_obs(_, _, _)
layer_high_obs(pr, upper, i) ==
    IF i < -pr.gNumLevels THEN i
    ELSE IF SndgPy(pr, i, pind) < upper THEN layer_high_obs(pr, upper, i - 1)
    ELSE i

\* Lines 861-871 (926-936, 983-993): lptr and uptr of the layer and the
\* value the last loop leaves in i; err when a loop raised.
layer_obs(pr, lower, upper, ind) ==
    LET ptrs(i, j) ==
            IF i >= pr.gNumLevels \/ j < -pr.gNumLevels
            THEN [err |-> TRUE, lptr |-> i, uptr |-> j, i |-> j]
            ELSE [err |-> FALSE, i |-> j,
                  lptr |-> IF Sndg(pr, i, pind) = lower THEN i + 1 ELSE i,
                  uptr |-> IF SndgPy(pr, j, pind) = upper THEN j - 1 ELSE j]
    IN  ptrs(layer_valid_obs(pr, ind, layer_low_obs(pr, lower, 0)),
             layer_high_obs(pr, upper, pr.gNumLevels - 1))

\* (a + b) / 2. on Python values.
Mean2(a, b) == IF NotNum(a) \/ NotNum(b) THEN Exc ELSE RDiv(a + b, 2)

\* The profile after lines 857-858 with line 858 an assignment to the
\* surface pressure.
layer_check_assigned(pr, lower, upper) ==
    IF NotNum(i_temp(lower, pr)) \/ QC(i_temp(lower, pr)) = 0
    THEN [pr EXCEPT !.gSndg[pr.sfc + 1][pind + 1] = lower]
    ELSE pr

\* The profile after lines 857-858 (922-923): line 857 assigns the local mmw
\* and line 858 evaluates prof.gSndg[prof.sfc][prof.pind] and drops it.
layer_check(pr, lower, upper) == pr

\* The loop of lines 882-892 from level i to level uptr: s holds dp1, p1,
\* totd, totp and num.
RECURSIVE mean_mixratio_levels(_, _, _, _)
mean_mixratio_levels(s, pr, i, uptr) ==
    LET add(dp2, p2) ==
            [dp1 |-> dp2, p1 |-> p2, num |-> s.num + 1,
             totd |-> Add(s.totd, Mean2(s.dp1, dp2)),
             totp |-> Add(s.totp, Mean2(s.p1, p2))]
    IN  IF i > uptr THEN s
        ELSE IF QC(Sndg(pr, i, tdind)) = 1
        THEN mean_mixratio_levels(add(Sndg(pr, i, tdind), Sndg(pr, i, pind)),
                                  pr, i + 1, uptr)
        ELSE mean_mixratio_levels(s, pr, i + 1, uptr)

\* mean_mixratio(prof, lower, upper): the mean mixing ratio, or Exc.
mean_mixratio(pr, lower0, upper0) ==
    LET ratio(p, d) == IF NotNum(p) \/ NotNum(d) THEN Exc ELSE mixratio(p, d)
        top(s, upper) ==
            ratio(IF NotNum(Add(s.totp, Mean2(s.p1, upper))) THEN Exc
                  ELSE RDiv(Add(s.totp, Mean2(s.p1, upper)), s.num),
                  IF NotNum(Add(s.totd, Mean2(s.dp1, i_dwpt(upper, pr))))
                  THEN Exc
                  ELSE RDiv(Add(s.totd, Mean2(s.dp1, i_dwpt(upper, pr))),
                            s.num))
        levels(o, lower, upper) ==
            IF o.err THEN Exc
            ELSE top(mean_mixratio_levels(
                         [dp1 |-> i_dwpt(lower, pr), p1 |-> lower, num |-> 1,
                          totd |-> 0, totp |-> 0],
                         pr, o.lptr, o.uptr), upper)
        layer(lower, upper) ==
            IF i_temp(upper, pr) = Exc \/ i_temp(lower, pr) = Exc THEN Exc
            ELSE levels(layer_obs(pr, lower, upper, tdind), lower, upper)
    IN  layer(IF lower0 = Fx(-1) THEN Sndg(pr, pr.sfc, pind) ELSE lower0,
              IF upper0 = Fx(-1) THEN Sndg(pr, pr.sfc, pind) - Fx(100)
              ELSE upper0)

\* The loop of lines 945-952 from level i to level uptr: s holds t1, tott
\* and num.
RECURSIVE mean_theta_levels(_, _, _, _)
mean_theta_levels(s, pr, i, uptr) ==
    LET add(t2) == [t1 |-> t2, num |-> s.num + 1,
                    tott |-> Add(s.tott, Mean2(s.t1, t2))]
    IN  IF i > uptr THEN s
        ELSE IF QC(Sndg(pr, i, tind)) = 1
        THEN mean_theta_levels(add(theta(Sndg(pr, i, pind), Sndg(pr, i, tind),
                                         Fx(1000))),
                               pr, i + 1, uptr)
        ELSE mean_theta_levels(s, pr, i + 1, uptr)

\* mean_theta(prof, lower, upper): the mean potential temperature, or Exc.
mean_theta(pr, lower0, upper0) ==
    LET th(p, t) == IF NotNum(t) THEN Exc ELSE theta(p, t, Fx(1000))
        mean(tott, num) == IF NotNum(tott) THEN Exc ELSE RDiv(tott, num)
        top(s, upper) ==
            mean(Add(s.tott, Mean2(s.t1, th(upper, i_temp(upper, pr)))), s.num)
        levels(o, lower, upper) ==
            IF o.err THEN Exc
            ELSE top(mean_theta_levels(
                         [t1 |-> th(lower, i_temp(lower, pr)), num |-> 1,
                          tott |-> 0],
                         pr, o.lptr, o.uptr), upper)
        layer(lower, upper) ==
            IF i_temp(upper, pr) = Exc \/ i_temp(lower, pr) = Exc THEN Exc
            ELSE levels(layer_obs(pr, lower, upper, tind), lower, upper)
    IN  layer(IF lower0 = Fx(-1) THEN Sndg(pr, pr.sfc, pind) ELSE lower0,
              IF upper0 = Fx(-1) THEN Sndg(pr, pr.sfc, pind) - Fx(100)
              ELSE upper0)

\* The most passes of the loop of line 979 that are followed.
UnstableSteps == 12

\* Line 979: upper moves down by 50 hPa while the dew point interpolated at
\* it is not valid.  The result is the pressure reached, Exc when the
\* interpolation raised, PyNone when the loop is still running after n
\* passes.
RECURSIVE unstable_upper(_, _, _)
unstable_upper(pr, upper, n) ==
    IF i_dwpt(upper, pr) = Exc THEN Exc
    ELSE IF QC(i_dwpt(upper, pr)) = 1 THEN upper
    ELSE IF n = 0 THEN PyNone
    ELSE unstable_upper(pr, upper + Fx(50), n - 1)

\* thermo.wetlift(p2, t2, 1000.) of the parcel <<p2, t2>> that
\* thermo.drylift(p1, t1, td1) returns (lines 999-1000, 1009-1010,
\* 1019-1020).
unstable_thetaw(p1, t1, td1) ==
    LET lift(pt) == wetlift(pt[1], pt[2], Fx(1000))
    IN  IF NotNum(p1) \/ NotNum(t1) \/ NotNum(td1) THEN Exc
        ELSE lift(drylift(p1, t1, td1))

\* The candidates of unstable_level in the order the routine lifts them:
\* the interpolated bottom (lines 996-1001), the levels lptr to uptr (lines
\* 1004-1013; skip: no dew point, line 1005) and the interpolated top (lines
\* 1016-1022).  pmax is what the routine assigns to pmax when the candidate
\* is the new maximum: at line 1022 the pressure of level i, the last level
\* of the loop, or what line 991 left in i when the loop was empty.
unstable_candidates(pr, lower, upper, o) ==
    LET nlev == IF o.uptr >= o.lptr THEN o.uptr - o.lptr + 1 ELSE 0
        lev(i) == [p |-> Sndg(pr, i, pind), t |-> Sndg(pr, i, tind),
                   td |-> Sndg(pr, i, tdind), pmax |-> Sndg(pr, i, pind),
                   skip |-> QC(Sndg(pr, i, tdind)) = 0]
    IN  <<[p |-> lower, t |-> i_temp(lower, pr), td |-> i_dwpt(lower, pr),
           pmax |-> lower, skip |-> FALSE]>>
        \o [k \in 1..nlev |-> lev(o.lptr + k - 1)]
        \o <<[p |-> upper, t |-> i_temp(upper, pr), td |-> i_dwpt(upper, pr),
              pmax |-> SndgPy(pr, IF nlev > 0 THEN o.uptr ELSE o.i, pind),
              skip |-> FALSE]>>

\* The candidates c from the k-th on are lifted and compared with the
\* maximum so far (lines 1000-1001, 1010-1013, 1020-1022): s holds tmax
\* and pmax.
RECURSIVE unstable_scan(_, _, _)
unstable_scan(c, k, s) ==
    LET cmp(t1) == IF t1 = Exc \/ s.tmax = Exc
                   THEN [tmax |-> Exc, pmax |-> s.pmax]
                   ELSE IF k = 1 \/ t1 > s.tmax
                   THEN [tmax |-> IF k = Len(c) THEN s.tmax ELSE t1,
                         pmax |-> c[k].pmax]
                   ELSE s
    IN  IF k > Len(c) THEN s
        ELSE IF c[k].skip THEN unstable_scan(c, k + 1, s)
        ELSE unstable_scan(c, k + 1,
                           cmp(unstable_thetaw(c[k].p, c[k].t, c[k].td)))

\* unstable_level(prof, lower, upper): kind "value" with the pressure val
\* returned, "raise", or "loop" when line 979 does not end.
unstable_level(pr, lower0, upper0) ==
    LET raised == [kind |-> "raise", val |-> Exc]
        result(s) == IF s.tmax = Exc THEN raised
                     ELSE [kind |-> "value", val |-> s.pmax]
        levels(o, lower, upper) ==
            IF o.err THEN raised
            ELSE result(unstable_scan(unstable_candidates(pr, lower, upper, o),
                                      1, [tmax |-> 0, pmax |-> lower]))
        layer(lower, upper) ==
            levels(layer_obs(pr, lower, upper, tind), lower, upper)
        valid(lower, upper) ==
            IF upper = Exc \/ i_temp(lower, pr) = Exc THEN raised
            ELSE IF upper = PyNone THEN [kind |-> "loop", val |-> PyNone]
            ELSE layer(IF NotNum(i_temp(lower, pr)) \/ QC(i_temp(lower, pr)) = 0
                       THEN Sndg(pr, pr.sfc, pind) ELSE lower,
                       upper)
    IN  valid(IF lower0 = Fx(-1) THEN Sndg(pr, pr.sfc, pind) ELSE lower0,
              unstable_upper(pr, IF upper0 = Fx(-1)
                                 THEN Sndg(pr, pr.sfc, pind) - Fx(400)
                                 ELSE upper0, UnstableSteps))

---------------------------------------------------------------------------
(* The soundings of the model                                              *)

\* Values that fail QC: the sentinel, and -999.0.
Invalid == {RMISSD, Fx(-999)}

\* The largest number of levels of a sounding.
MaxLevels == 5

\* Pressure (tenths of a hPa) and height MSL (tenths of a m) of the levels,
\* lowest first: pressure strictly decreasing, height strictly increasing.
LevelPres == <<10000, 8500, 7000, 5000, 3000, 2000, 1500, 1000, 700>>

LevelHght == <<1000, 15000, 31000, 57000, 93000, 119000, 137000, 162000, 185000>>

\* Two temperatures a level may hold: warmer or colder than a parcel
\* lifted from the surface (25 C, dew point 20 C) is there.
TempWarm == <<250, 180, 110, -30, -270, -500, -560, -600, -600>>

TempCold == <<250, 130, 40, -120, -400, -620, -700, -760, -800>>

\* The temperatures of a capped sounding: a warm layer at 700 hPa over a
\* cold one at 850 hPa.
TempCap == <<250, 130, 120, -30, -270, -500, -560, -600, -600>>

\* Dew-point depression and wind of the levels.
DewDep == <<50, 60, 80, 100, 120, 150, 150, 150, 150>>

WindU == <<0, 50, 100, 200, 300, 400, 400, 350, 300>>

WindV == <<50, 100, 150, 200, 250, 200, 150, 100, 50>>

\* The level list of n levels whose levels in warm hold the warm
\* temperature, with the temperature missing at level mt and the dew point
\* missing at level md (levels counted from 1; 0: none missing).
LevelList(n, warm, mt, md) ==
    [k \in 1..n |->
        LET t == IF k \in warm THEN TempWarm[k] ELSE TempCold[k]
        IN  <<LevelPres[k], LevelHght[k],
              IF k = mt THEN RMISSD ELSE t,
              IF k = md THEN RMISSD ELSE t - DewDep[k],
              WindU[k], WindV[k]>>]

\* The soundings lifted: every pattern of warm and cold levels with nothing
\* missing, and the cold soundings with the temperature missing at one
\* level (or none) and the dew point missing at one level (or none); and
\* the capped sounding and a cold sounding whose wind is the same at every
\* level.
Soundings ==
    {Profile(LevelList(n, warm, 0, 0)) :
        n \in 0..MaxLevels, warm \in SUBSET (2..MaxLevels)}
    \cup {Profile([k \in 1..MaxLevels |->
                     <<LevelPres[k], LevelHght[k], TempCap[k],
                       TempCap[k] - DewDep[k], WindU[k], WindV[k]>>])}
    \cup {Profile([k \in 1..MaxLevels |->
                     [LevelList(MaxLevels, {}, 0, 0)[k]
                        EXCEPT ![uind + 1] = WindU[1], ![vind + 1] = WindV[1]]])}
    \cup {Profile(LevelList(n, {}, mt, md)) :
            n \in 0..MaxLevels,
            mt \in 0..MaxLevels, md \in 0..MaxLevels}

---------------------------------------------------------------------------
(* The validity check, applied to sample numbers                           *)

\* Half-width, in tenths, of the window probed around each threshold.
QCSpan == 12

QCInputs ==
    {RMISSD, PyNone, 0}
    \cup {-9980 + d : d \in (-QCSpan)..QCSpan}
    \cup {2000000 + d : d \in (-QCSpan)..QCSpan}
    \cup {Fx(1000) * k : k \in (-QCSpan)..QCSpan}

Idle == <<>>

\* Both implementations are applied to the number call.val; loc holds what
\* each returned (PyNone: not called yet).
InitQC ==
    /\ call \in {[fn |-> "QC", val |-> x] : x \in QCInputs}
    /\ pc = "start"
    /\ ret = PyNone
    /\ loc = [QC |-> PyNone, qc |-> PyNone]
    /\ prof = Idle /\ pcl = Idle

CallQC ==
    /\ loc.QC = PyNone
    /\ ret' = QC(call.val)
    /\ loc' = [loc EXCEPT !.QC = ret']
    /\ pc' = "done"
    /\ UNCHANGED <<prof, call, pcl>>

Callqc ==
    /\ loc.qc = PyNone
    /\ ret' = qc(call.val)
    /\ loc' = [loc EXCEPT !.qc = ret']
    /\ pc' = "done"
    /\ UNCHANGED <<prof, call, pcl>>

NextQC == CallQC \/ Callqc

SpecQC == InitQC /\ [][NextQC]_vars

\* C10: the validity check returns false exactly for the numbers below
\* -998.0 or above 2.0e5, and constants.QC and qc.qc return the same for
\* every number.
C10_QCThresholds ==
    /\ loc.QC # PyNone => (loc.QC = 0 <=> (call.val < -9980 \/ call.val > 2000000))
    /\ loc.qc # PyNone => (loc.qc = 0 <=> (call.val < -9980 \/ call.val > 2000000))
    /\ loc.QC # PyNone /\ loc.qc # PyNone => loc.QC = loc.qc

\* Both implementations have accepted the lower threshold itself.
C10_Witness ==
    /\ call.val = -9980
    /\ loc.QC = 1 /\ loc.qc = 1

---------------------------------------------------------------------------
(* The interpolation routines, applied to the soundings                    *)

\* Soundings of up to MaxLevels levels, one temperature and one of the two
\* lowest dew points possibly missing.
InterpSoundings ==
    {Profile(LevelList(n, {}, mt, md)) :
        n \in 0..MaxLevels, mt \in 0..MaxLevels, md \in 0..2}

\* Query pressures: the levels', one between each level and the next, one
\* below the lowest level, and two that fail QC.
PresQueries ==
    {LevelPres[k] : k \in 1..MaxLevels}
    \cup {LevelPres[k] - 500 : k \in 1..MaxLevels}
    \cup {LevelPres[1] + 200} \cup Invalid

HghtQueries ==
    {LevelHght[k] : k \in 1..MaxLevels}
    \cup {LevelHght[k] + 5000 : k \in 1..MaxLevels}
    \cup {LevelHght[1] - 500} \cup Invalid

InterpCalls ==
    {[fn |-> "interp_from_pres", x |-> p, ind |-> i] :
        p \in PresQueries, i \in {zind, tind, tdind, uind}}
    \cup {[fn |-> "interp_from_hght", x |-> h, ind |-> i] :
        h \in HghtQueries, i \in {pind, tind, tdind, uind}}

InitInterp ==
    /\ prof \in InterpSoundings
    /\ call \in InterpCalls
    /\ pc = "start"
    /\ ret = PyNone
    /\ loc = [kind |-> "start", bptr |-> 0, tptr |-> -1]
    /\ pcl = Idle

\* The call ends: ret is what it returned, loc how the scan ended.
InterpReturn(scan) ==
    /\ ret' = scan.val
    /\ loc' = [kind |-> scan.kind, bptr |-> scan.bptr, tptr |-> scan.tptr]
    /\ pc' = IF scan.kind = "raise" THEN "raised" ELSE "done"
    /\ UNCHANGED <<prof, call, pcl>>

Call_interp_from_pres ==
    /\ pc = "start" /\ call.fn = "interp_from_pres"
    /\ InterpReturn(interp_from_pres_scan(call.x, prof, call.ind))

Call_interp_from_hght ==
    /\ pc = "start" /\ call.fn = "interp_from_hght"
    /\ InterpReturn(interp_from_hght_scan(call.x, prof, call.ind))

NextInterp == Call_interp_from_pres \/ Call_interp_from_hght

SpecInterp == InitInterp /\ [][NextInterp]_vars

\* The coordinate the call scans: pressure or height.
Coord(f) == IF f = "interp_from_pres" THEN pind ELSE zind

\* Level i (from 0) holds a valid value of the requested field.
HasField(i) == QC(Sndg(prof, i, call.ind)) = 1

\* The levels the query lies strictly above (it is further up than level i).
Above(i) ==
    IF call.fn = "interp_from_pres"
    THEN Sndg(prof, i, pind) > call.x
    ELSE Sndg(prof, i, zind) < call.x

Below(i) ==
    IF call.fn = "interp_from_pres"
    THEN Sndg(prof, i, pind) < call.x
    ELSE Sndg(prof, i, zind) > call.x

Levels == 0..(prof.gNumLevels - 1)

\* The query lies under every level with a valid field, or over every one.
OutOfRange ==
    \/ \A i \in Levels : HasField(i) => Below(i)
    \/ \A i \in Levels : HasField(i) => Above(i)

\* C7: once interp_from_pres or interp_from_hght has been called, it has
\* returned a number: the missing sentinel for a coordinate that fails QC,
\* and for a valid coordinate under or over every level that has a valid
\* value of the field.  It has not raised and has not returned None.
C7_NumberOrMissing ==
    pc # "start" =>
        /\ pc = "done"
        /\ ret # PyNone
        /\ call.x \in Invalid => ret = RMISSD
        /\ call.x \notin Invalid /\ OutOfRange => ret = RMISSD

\* C8: when the call has returned an interpolated value, the levels bptr
\* and tptr it interpolated between both hold a valid value of the field,
\* bptr further down and tptr further up than the query.
C8_ValidBrackets ==
    loc.kind = "interp" =>
        /\ HasField(loc.bptr) /\ HasField(loc.tptr)
        /\ Above(loc.bptr) /\ Below(loc.tptr)

---------------------------------------------------------------------------
(* The thermodynamic primitives, applied to sample arguments               *)

\* The number of valid sample values of each argument, less one.
ThermoSamples == 2

PresArgs == Invalid \cup {Fx(1000) - Fx(250) * k : k \in 0..ThermoSamples}

TempArgs == Invalid \cup {Fx(25) - Fx(20) * k : k \in 0..ThermoSamples}

DwptArgs == Invalid \cup {Fx(20) - Fx(25) * k : k \in 0..ThermoSamples}

MixrArgs == Invalid \cup {Fx(15) - Fx(5) * k : k \in 0..ThermoSamples}

Primitives3 == {"theta", "drylift", "wetlift", "wetbulb", "thetaw", "thetae", "virtemp"}

Primitives2 == {"lcltemp", "thalvl", "satlift", "mixratio", "temp_at_mixrat"}

Primitives1 == {"wobf", "vappres"}

\* The arguments of each primitive, in the order of its signature.
ThermoCalls ==
    {[fn |-> f, args |-> <<p, t, x>>] :
        f \in Primitives3 \ {"theta", "wetlift"},
        p \in PresArgs, t \in TempArgs, x \in DwptArgs}
    \cup {[fn |-> f, args |-> <<p, t, x>>] :
        f \in {"theta", "wetlift"},
        p \in PresArgs, t \in TempArgs, x \in PresArgs}
    \cup {[fn |-> "lcltemp", args |-> <<t, x>>] : t \in TempArgs, x \in DwptArgs}
    \cup {[fn |-> "thalvl", args |-> <<x, t>>] : x \in TempArgs, t \in TempArgs}
    \cup {[fn |-> "satlift", args |-> <<p, x>>] : p \in PresArgs, x \in TempArgs}
    \cup {[fn |-> "mixratio", args |-> <<p, t>>] : p \in PresArgs, t \in TempArgs}
    \cup {[fn |-> "temp_at_mixrat", args |-> <<w, p>>] :
        w \in MixrArgs, p \in PresArgs}
    \cup {[fn |-> f, args |-> <<t>>] : f \in Primitives1, t \in TempArgs}

InitThermo ==
    /\ call \in ThermoCalls
    /\ pc = "start"
    /\ ret = PyNone
    /\ prof = Idle /\ pcl = Idle /\ loc = Idle

\* The call returns r, or raises.
Return(f, r) ==
    /\ pc = "start" /\ call.fn = f
    /\ ret' = r
    /\ pc' = IF r = Exc THEN "raised" ELSE "done"
    /\ UNCHANGED <<prof, call, pcl, loc>>

Call_theta == Return("theta", theta(call.args[1], call.args[2], call.args[3]))

Call_lcltemp == Return("lcltemp", lcltemp(call.args[1], call.args[2]))

Call_thalvl == Return("thalvl", thalvl(call.args[1], call.args[2]))

Call_drylift ==
    /\ pc = "start" /\ call.fn = "drylift"
    /\ ret' = drylift(call.args[1], call.args[2], call.args[3])
    /\ pc' = IF ret'[1] = Exc THEN "raised" ELSE "done"
    /\ UNCHANGED <<prof, call, pcl, loc>>

Call_wetlift == Return("wetlift", wetlift(call.args[1], call.args[2], call.args[3]))

Call_wobf == Return("wobf", wobf(call.args[1]))

Call_satlift == Return("satlift", satlift(call.args[1], call.args[2]))

Call_temp_at_mixrat ==
    Return("temp_at_mixrat", temp_at_mixrat(call.args[1], call.args[2]))

Call_mixratio == Return("mixratio", mixratio(call.args[1], call.args[2]))

Call_vappres == Return("vappres", vappres(call.args[1]))

Call_wetbulb == Return("wetbulb", wetbulb(call.args[1], call.args[2], call.args[3]))

Call_thetaw == Return("thetaw", thetaw(call.args[1], call.args[2], call.args[3]))

Call_thetae == Return("thetae", thetae(call.args[1], call.args[2], call.args[3]))

Call_virtemp == Return("virtemp", virtemp(call.args[1], call.args[2], call.args[3]))

NextThermo ==
    \/ Call_theta \/ Call_lcltemp \/ Call_thalvl \/ Call_drylift
    \/ Call_wetlift \/ Call_wobf \/ Call_satlift \/ Call_temp_at_mixrat
    \/ Call_mixratio \/ Call_vappres \/ Call_wetbulb \/ Call_thetaw
    \/ Call_thetae \/ Call_virtemp

SpecThermo == InitThermo /\ [][NextThermo]_vars

\* The arguments a primitive requires: all of them, but for virtemp, whose
\* dew point may be missing.
Required(f) == IF f = "virtemp" THEN {1, 2} ELSE {1, 2, 3}

\* C6: once a thermodynamic primitive has been called with a required
\* argument that fails QC, what it returned is the missing sentinel (for
\* drylift the pair of two sentinels): it neither raised nor computed a value.
C6_MissingPropagates ==
    (/\ pc # "start"
     /\ \E k \in Required(call.fn) \cap DOMAIN call.args : call.args[k] \in Invalid)
    => /\ pc = "done"
       /\ ret = IF call.fn = "drylift" THEN <<RMISSD, RMISSD>> ELSE RMISSD

---------------------------------------------------------------------------
(* parcelx, applied to the soundings                                       *)

\* The parcels lifted: the surface observation, a saturated parcel at
\* 1000 hPa, a dry parcel at 850 hPa, a drier one at 1000 hPa (its LCL is
\* above the 500 hPa level) and one at 999.5 hPa; the layer is the default
\* one (-1, -1) or ends at 600 hPa.
LiftCalls(pr) ==
    LET s == IF pr.gNumLevels = 0 THEN <<Fx(1000), Fx(25), Fx(20)>>
             ELSE <<Sndg(pr, pr.sfc, pind), Sndg(pr, pr.sfc, tind),
                    Sndg(pr, pr.sfc, tdind)>>
    IN  {[fn |-> "parcelx", lower |-> Fx(-1), upper |-> u,
          pres |-> q[1], temp |-> q[2], dwpt |-> q[3]] :
            u \in {Fx(-1), Fx(600)},
            q \in {s, <<Fx(1000), Fx(25), Fx(25)>>, <<Fx(850), Fx(18), Fx(-10)>>,
                   <<Fx(1000), Fx(25), Fx(-30)>>,
                   <<Fx(1000) - 5, Fx(25), Fx(20)>>}}

\* parcelx's local variables before line 317; err once a statement raised,
\* lfcs the number of times the LFC block (lines 652-672) has run, lyrs the
\* sub-layers <<pp1, pp2>> the mixing-layer loop (lines 380-402) has passed.
Locals ==
    [i |-> 0, lower |-> PyNone, upper |-> PyNone,
     pe1 |-> PyNone, h1 |-> PyNone, te1 |-> PyNone, tp1 |-> PyNone,
     pe2 |-> PyNone, h2 |-> PyNone, te2 |-> PyNone, tp2 |-> PyNone,
     pe3 |-> PyNone, h3 |-> PyNone, te3 |-> PyNone, tp3 |-> PyNone,
     lyre |-> -10, lyrlast |-> 0, totp |-> 0, totn |-> 0, tote |-> 0,
     cinh_old |-> 0,
     cap_strength |-> RMISSD, cap_strengthpres |-> RMISSD,
     li_max |-> RMISSD, li_maxpres |-> RMISSD,
     pelast |-> PyNone, lptr |-> 0, uptr |-> 0,
     theta_parcel |-> PyNone, blmr |-> PyNone, err |-> FALSE, lfcs |-> 0,
     lyrs |-> <<>>]

Init ==
    /\ prof \in Soundings
    /\ call \in LiftCalls(prof)
    /\ pc = "start"
    /\ ret = [kind |-> "none", val |-> PyNone]
    /\ pcl = Parcel(Fx(-1), Fx(-1), call.pres, call.temp, call.dwpt)
    /\ loc = Locals

\* The frame of the call.
Frame == [p |-> pcl, l |-> loc]

\* parcelx goes on at position next with the frame f, or has raised.
Goto(f, next) ==
    /\ pcl' = f.p
    /\ loc' = f.l
    /\ pc' = IF f.l.err THEN "raised" ELSE next
    /\ ret' = IF f.l.err THEN [kind |-> "raise", val |-> Exc]
              ELSE IF next = "done" THEN [kind |-> "pcl", val |-> 0]
              ELSE ret
    /\ UNCHANGED <<prof, call>>

\* Lines 317-349: the parcel is constructed and the layer checked.
parcelx_begin ==
    /\ pc = "start"
    /\ LET lower0 == IF call.lower = Fx(-1) THEN Sndg(prof, prof.sfc, pind)
                     ELSE call.lower
           upper  == IF call.upper = Fx(-1)
                     THEN Sndg(prof, prof.gNumLevels - 1, pind)
                     ELSE call.upper
           lower  == IF lower0 > call.pres THEN call.pres ELSE lower0
           f == [Frame EXCEPT
                   !.l.lower = lower, !.l.upper = upper,
                   !.p.blayer = IF call.lower = Fx(-1) \/ lower0 > call.pres
                                THEN lower ELSE @,
                   !.p.tlayer = IF call.upper = Fx(-1) THEN upper ELSE @]
           checked(vl, vu) ==
               IF vl = Exc \/ (QC(vl) = 1 /\ vu = Exc)
               THEN Goto(Raise(f), "lcl")
               ELSE IF QC(vl) = 0 \/ QC(vu) = 0
               THEN /\ ret' = [kind |-> "float", val |-> RMISSD] \* line 349
                    /\ pc' = "done"
                    /\ pcl' = f.p
                    /\ loc' = f.l
                    /\ UNCHANGED <<prof, call>>
               ELSE Goto(f, "lcl")
       IN  IF prof.gNumLevels < 1
           THEN Goto(Frame, "done")                          \* line 323
           ELSE checked(i_vtmp(lower, prof), i_vtmp(upper, prof))

\* Lines 351-401: the LCL, and the negative energy of the mixing layer.
parcelx_mixing_layer ==
    /\ pc = "lcl"
    /\ LET f == Frame
           set(te1, h1, tp1, pe2, tp2, h2, te2, lclh, theta_parcel, bltheta,
               blmr, ml) ==
               IF Exc \in {te1, h1, tp1, pe2, h2, te2, lclh, theta_parcel,
                           bltheta, blmr, ml.totn}
               THEN Goto(Raise(f), "levels")
               ELSE Goto([f EXCEPT
                            !.l.te1 = te1, !.l.pe1 = f.l.lower, !.l.h1 = h1,
                            !.l.tp1 = tp1,
                            !.l.pe2 = pe2, !.l.tp2 = tp2, !.l.h2 = h2,
                            !.l.te2 = te2,
                            !.p.lclpres = pe2, !.p.lclhght = lclh,
                            !.l.theta_parcel = theta_parcel, !.l.blmr = blmr,
                            !.l.totn = ml.totn, !.l.lyrs = ml.lyrs],
                         "levels")
           mixed(te1, h1, tp1, pe2, tp2, h2, te2, lclh, theta_parcel, bltheta,
                 blmr) ==
               set(te1, h1, tp1, pe2, tp2, h2, te2, lclh, theta_parcel,
                   bltheta, blmr,
                   IF NotNum(f.l.lower) \/ NotNum(pe2)           \* int()
                   THEN [pp |-> 0, totn |-> Exc, lyrs |-> <<>>]
                   ELSE mixing_layer(PyInt(f.l.lower), PyInt(pe2), pe2,
                                     theta_parcel, blmr, prof, 0))
           lcl(te1, h1, tp1, pe2, tp2, h2) ==
               mixed(te1, h1, tp1, pe2, tp2, h2, i_vtmp(pe2, prof),
                     agl(h2, prof), theta(pe2, tp2, Fx(1000)),
                     theta(f.p.pres, i_temp(f.p.pres, prof), Fx(1000)),
                     mixratio(f.p.pres, f.p.dwpt))
           lifted_to(te1, h1, tp1, dl) ==
               lcl(te1, h1, tp1, dl[1], dl[2], i_hght(dl[1], prof))
       IN  lifted_to(i_vtmp(f.p.pres, prof), i_hght(f.l.lower, prof),
                     virtemp(f.p.pres, f.p.temp, f.p.dwpt),
                     drylift(f.p.pres, f.p.temp, f.p.dwpt))

\* Lines 403-455: the temperature levels, the first and last observation of
\* the layer, and the bottom of the ascent.
parcelx_levels ==
    /\ pc = "levels"
    /\ LET f     == Frame
           lower == IF f.l.lower > f.l.pe2 THEN f.l.pe2 ELSE f.l.lower
           set(p0c, pm10c, pm20c, pm30c, hgt0c, hgtm10c, hgtm20c, hgtm30c,
               lptr, uptr, h1, te1, tp1) ==
               IF Exc \in {p0c, pm10c, pm20c, pm30c, hgt0c, hgtm10c, hgtm20c,
                           hgtm30c, h1, te1, tp1}
               THEN Goto(Raise(f), "ascent")
               ELSE Goto([f EXCEPT
                            !.l.lower = lower,
                            !.p.blayer = IF f.l.lower > f.l.pe2 THEN lower
                                         ELSE @,
                            !.p.p0c = p0c, !.p.pm10c = pm10c,
                            !.p.pm20c = pm20c, !.p.pm30c = pm30c,
                            !.p.hght0c = hgt0c, !.p.hghtm10c = hgtm10c,
                            !.p.hghtm20c = hgtm20c, !.p.hghtm30c = hgtm30c,
                            !.l.lptr = lptr, !.l.uptr = uptr, !.l.i = lptr,
                            !.l.pe1 = lower, !.l.h1 = h1, !.l.te1 = te1,
                            !.l.tp1 = tp1,
                            !.l.lyre = 0, !.l.lyrlast = 0],
                         "ascent")
           bottom(p0c, pm10c, pm20c, pm30c, hgt0c, hgtm10c, hgtm20c, hgtm30c,
                  lptr) ==
               set(p0c, pm10c, pm20c, pm30c, hgt0c, hgtm10c, hgtm20c,
                   hgtm30c, lptr, highest_obs(prof, f.l.upper, lptr),
                   i_hght(lower, prof), i_vtmp(lower, prof),
                   wetlift(f.l.pe2, f.l.tp2, lower))
           heights(p0c, pm10c, pm20c, pm30c) ==
               bottom(p0c, pm10c, pm20c, pm30c, i_hght(p0c, prof),
                      i_hght(pm10c, prof), i_hght(pm20c, prof),
                      i_hght(pm30c, prof), lowest_obs(prof, lower))
       IN  heights(temp_lvl(Fx(0), prof), temp_lvl(Fx(-10), prof),
                   temp_lvl(Fx(-20), prof), temp_lvl(Fx(-30), prof))

\* Lines 456-724: one pass of the loop over the levels from lptr up.
parcelx_ascent ==
    /\ pc = "ascent"
    /\ loc.i < prof.gNumLevels
    /\ \E f \in {ascent_level(Frame, prof)} :
           Goto([f EXCEPT !.l.i = @ + 1], "ascent")

\* Lines 726-729 without line 730: bminus is cinh_old whatever bplus is.
parcelx_finish_no_clamp ==
    /\ pc = "ascent"
    /\ loc.i >= prof.gNumLevels
    /\ LET f == Frame
           set(br) ==
               IF br[1] = Exc THEN Goto(Raise(f), "done")
               ELSE Goto([f EXCEPT
                            !.p.brnshear = br[1], !.p.brn = br[2],
                            !.p.bminus = f.l.cinh_old],
                         "done")
       IN  set(bulk_rich(f.p, prof))

\* Lines 726-731 without line 729: bminus stays what the top-of-layer block
\* (lines 501-516) left in it.
parcelx_finish_layer_bminus ==
    /\ pc = "ascent"
    /\ loc.i >= prof.gNumLevels
    /\ LET f == Frame
           set(br) ==
               IF br[1] = Exc THEN Goto(Raise(f), "done")
               ELSE Goto([f EXCEPT
                            !.p.brnshear = br[1], !.p.brn = br[2],
                            !.p.bminus = IF f.p.bplus = 0 THEN 0 ELSE @],
                         "done")
       IN  set(bulk_rich(f.p, prof))

\* Lines 726-731: the loop is over.
parcelx_finish ==
    /\ pc = "ascent"
    /\ loc.i >= prof.gNumLevels
    /\ LET f == Frame
           set(br) ==
               IF br[1] = Exc THEN Goto(Raise(f), "done")
               ELSE Goto([f EXCEPT
                            !.p.brnshear = br[1], !.p.brn = br[2],
                            !.p.bminus = IF f.p.bplus = 0 THEN 0
                                         ELSE f.l.cinh_old],
                         "done")
       IN  set(bulk_rich(f.p, prof))

Next ==
    \/ parcelx_begin
    \/ parcelx_mixing_layer
    \/ parcelx_levels
    \/ parcelx_ascent
    \/ parcelx_finish

Spec == Init /\ [][Next]_vars

---------------------------------------------------------------------------
(* Properties of parcelx                                                   *)

\* parcelx has returned a Parcel object.
ReturnedParcel == pc = "done" /\ ret.kind = "pcl"

\* parcelx is over: it returned or it raised.
Over == pc \in {"done", "raised"}

\* The fields parcelx computes (not the parcel lifted, the layer, the flag).
ResultFields ==
    {"lclpres", "lclhght", "lfcpres", "lfchght", "elpres", "elhght",
     "mplpres", "mplhght", "bplus", "bminus", "bfzl", "b3km", "b6km",
     "p0c", "pm10c", "pm20c", "pm30c", "hght0c", "hghtm10c", "hghtm20c",
     "hghtm30c", "wm10c", "wm20c", "wm30c", "li5", "li3", "brnshear", "brn",
     "limax", "limaxpres", "cap", "cappres"}

AllMissing == \A fld \in ResultFields : pcl[fld] = RMISSD

\* C1: the parcel parcelx returns for a sounding of at least one level has
\* bplus >= 0.
C1_BplusNonNegative ==
    (ReturnedParcel /\ prof.gNumLevels >= 1) => pcl.bplus >= 0

\* C2: whenever the parcel parcelx returns has bplus = 0, it has bminus = 0.
C2_ZeroClamp ==
    ReturnedParcel => (pcl.bplus = 0 => pcl.bminus = 0)

\* A parcel is returned with bplus = 0 after negative energy was
\* recorded at an LFC: line 730 replaced it.
C2_Witness ==
    /\ ReturnedParcel
    /\ pcl.bplus = 0
    /\ loc.cinh_old < 0
    /\ pcl.bminus = 0

\* The fields C3 names.
C3_Fields ==
    {"lclpres", "lfcpres", "lfchght", "elpres", "elhght", "mplpres",
     "mplhght", "bplus", "bminus", "bfzl", "b3km", "b6km", "wm10c", "wm20c",
     "wm30c", "li5", "li3", "cap"}

\* C3 as stated: every result field starts at the missing sentinel, and a
\* field that holds a non-missing value keeps it in every step of the lift.
C3_NeverAssignedAgain ==
    /\ \A fld \in C3_Fields : pcl[fld] = RMISSD
    /\ [][\A fld \in C3_Fields :
              pcl[fld] # RMISSD => pcl'[fld] = pcl[fld]]_vars

\* The fields written under a "not yet set" test, and the test.
C3_Set(fld) ==
    IF fld \in {"bplus", "bfzl", "b3km", "b6km", "wm10c", "wm20c", "wm30c"}
    THEN QC(pcl[fld]) = 1
    ELSE pcl[fld] # RMISSD

C3_GuardedFields ==
    {"bplus", "bfzl", "b3km", "b6km", "wm10c", "wm20c", "wm30c",
     "li5", "li3", "lclpres", "lclhght"}

\* C3, amended: every result field starts at the missing sentinel, and a
\* field written under a "not yet set" test (bplus, bfzl, b3km, b6km, wm10c,
\* wm20c, wm30c once they pass QC, li5 and li3 once they differ from the
\* sentinel) or before the ascent (lclpres, lclhght) keeps its value in
\* every later pass of the ascent loop and in the final lines.
C3_GuardedKeepValue ==
    /\ \A fld \in ResultFields : pcl[fld] = RMISSD
    /\ [][\A fld \in C3_GuardedFields :
              C3_Set(fld) => pcl'[fld] = pcl[fld]]_vars

\* A five-level sounding lifted to 600 hPa: bplus is set at the 700 hPa
\* level, bfzl and li5 at the 500 hPa level, li3 at the 300 hPa level, and
\* the parcel is returned.
C3_Witness ==
    /\ ReturnedParcel
    /\ prof.gNumLevels = 5
    /\ call.upper = Fx(600)
    /\ pcl.bplus > 0
    /\ pcl.bfzl > 0
    /\ pcl.li5 # RMISSD
    /\ pcl.li3 # RMISSD

\* The bounds of the layer as line 347 reads them.
C4_Lower ==
    LET lower0 == IF call.lower = Fx(-1) THEN Sndg(prof, prof.sfc, pind)
                  ELSE call.lower
    IN  IF lower0 > call.pres THEN call.pres ELSE lower0

C4_Upper ==
    IF call.upper = Fx(-1) THEN Sndg(prof, prof.gNumLevels - 1, pind)
    ELSE call.upper

\* C4: when the environmental virtual temperature fails QC at the lower or
\* at the upper bound of the layer, parcelx returns a Parcel object whose
\* result fields are all the missing sentinel.
C4_AllMissingParcel ==
    (/\ Over
     /\ prof.gNumLevels >= 1
     /\ \/ QC(i_vtmp(C4_Lower, prof)) = 0
        \/ QC(i_vtmp(C4_Upper, prof)) = 0)
    => (ReturnedParcel /\ AllMissing)

\* C5: for a sounding of exactly one level parcelx returns, without
\* raising, a Parcel object whose result fields are all the missing sentinel.
C5_SingleLevel ==
    (Over /\ prof.gNumLevels = 1) => (ReturnedParcel /\ AllMissing)


\* The pass of the ascent loop over level loc.i has run to its end, and the
\* level was processed (its temperature is valid: line 457).
ProcessedLevel ==
    /\ pc = "ascent" /\ pc' = "ascent"
    /\ loc'.i = loc.i + 1
    /\ QC(Sndg(prof, loc.i, tind)) = 1

\* The LFC block ran in this pass.
LfcDetected == loc'.lfcs = loc.lfcs + 1

\* C20 as stated: an LFC is detected at a processed level if and only if the
\* layer energy was negative at the previous processed level and is
\* non-negative at the current one; tote is 0 after every detection.
C20_LfcIffNegativeBefore ==
    [][ProcessedLevel
        => /\ LfcDetected <=> (loc.lyre < 0 /\ loc'.lyre >= 0)
           /\ LfcDetected => loc'.tote = 0]_vars

\* C20, amended: an LFC is detected at a processed level if and only if the
\* layer energy is non-negative there and was non-positive at the previous
\* processed level (it counts as 0 before the first processed level); the
\* detection writes lfcpres, sets cinh_old to totn, clears elpres, and tote
\* is 0 after it.
C20_LfcIffNonPositiveBefore ==
    [][ProcessedLevel
        => /\ LfcDetected <=> (loc.lyre <= 0 /\ loc'.lyre >= 0)
           /\ LfcDetected => /\ loc'.tote = 0
                             /\ loc'.cinh_old = loc'.totn
                             /\ pcl'.lfcpres # RMISSD
                             /\ pcl'.lfcpres <= pcl'.lclpres
           /\ ~LfcDetected => /\ pcl'.lfcpres = pcl.lfcpres
                              /\ loc'.cinh_old = loc.cinh_old]_vars

\* An LFC has just been detected where the layer energy turned from
\* negative to non-negative.
C20_Witness ==
    /\ pc = "ascent"
    /\ loc.lfcs = 1
    /\ loc.lyrlast < 0 /\ loc.lyre >= 0
    /\ loc.tote = 0
    /\ pcl.lfcpres # RMISSD

\* The negative energy recorded for the last LFC: cinh_old is 0 until the
\* first detection, takes the value of totn in the pass of a detection, and
\* changes in no other step.
CinhAtLastLfc ==
    [][/\ loc.lfcs = 0 => loc.cinh_old = 0
       /\ (ProcessedLevel /\ LfcDetected) => loc'.cinh_old = loc'.totn
       /\ ~(ProcessedLevel /\ LfcDetected) => loc'.cinh_old = loc.cinh_old]_vars

C23_LfcNotBelowLcl ==
    /\ [](loc.lfcs >= 1 => pcl.lfcpres <= pcl.lclpres)
    /\ [][loc.lfcs >= 1 => pcl'.lclpres = pcl.lclpres]_vars

\* A parcel is returned with an LFC recorded above its LCL.
C23_Witness ==
    /\ ReturnedParcel
    /\ loc.lfcs >= 1
    /\ QC(pcl.lfcpres) = 1
    /\ pcl.lfcpres < pcl.lclpres

\* The field fld of the parcel is written in this step for the first time.
FirstWritten(fld) == QC(pcl[fld]) = 0 /\ QC(pcl'[fld]) = 1

\* Height AGL and environment virtual temperature of the level the pass
\* is at.
LevelHeight == agl(Sndg(prof, loc.i, zind), prof)

LevelVtmp == i_vtmp(Sndg(prof, loc.i, pind), prof)

\* C24: each threshold is captured at its first crossing.  In the pass over
\* a processed level, with the LCL below 6000 m AGL b6km is written for the
\* first time exactly when the level is at or above 6000 m AGL and b6km was
\* not written before; b3km likewise with 3000 m AGL; and bfzl is written
\* for the first time exactly when the environment temperature of the
\* level is below 0 and bfzl was not written before.
C24_FirstCrossing ==
    [][ProcessedLevel
        => /\ pcl.lclhght < Fx(6000)
                => (FirstWritten("b6km")
                      <=> (LevelHeight >= Fx(6000) /\ QC(pcl.b6km) = 0))
           /\ pcl.lclhght < Fx(3000)
                => (FirstWritten("b3km")
                      <=> (LevelHeight >= Fx(3000) /\ QC(pcl.b3km) = 0))
           /\ FirstWritten("bfzl")
                <=> (LevelVtmp < 0 /\ QC(pcl.bfzl) = 0)]_vars

\* The state between the mixing-layer loop (lines 377-402) and line 405:
\* loc.lower is the layer bottom the loop started from, pcl.lclpres the
\* LCL it ran to.
MixingLayerDone == pc = "levels" /\ call.fn = "parcelx" /\ ~loc.err

\* C25: the mixing-layer CIN loop terminates (its passes are bounded by the
\* depth of the layer) and its sub-layers [pp2, pp1] are contiguous, at
\* most 10 hPa thick, begin exactly at the layer bottom lower, end exactly
\* at the LCL pressure, and none extends above the LCL.
C25_MixingSubLayers ==
    MixingLayerDone =>
        LET lyrs == loc.lyrs
            n    == Len(lyrs)
        IN  /\ n = 0 \/ (n - 1) * Fx(10) < loc.lower - pcl.lclpres
            /\ \A k \in 2..n : lyrs[k][1] = lyrs[k - 1][2]
            /\ \A k \in 1..n : /\ lyrs[k][2] < lyrs[k][1]
                                /\ lyrs[k][1] - lyrs[k][2] <= Fx(10)
                                /\ lyrs[k][2] >= pcl.lclpres
            /\ loc.lower > pcl.lclpres =>
                   /\ n >= 1
                   /\ lyrs[1][1] = loc.lower
                   /\ lyrs[n][2] = pcl.lclpres

\* Line 727 is about to run: the loop over the levels is over.
BulkRichCalled == pc = "ascent" /\ loc.i >= prof.gNumLevels

\* C26: bulk_rich returns the parcel, never raising, with brn and brnshear
\* both missing or both numbers with brn = bplus / brnshear.
C26_BulkRichReturns ==
    [][BulkRichCalled =>
         /\ pc' = "done"
         /\ \/ QC(pcl'.brn) = 0 /\ QC(pcl'.brnshear) = 0
            \/ /\ QC(pcl'.brn) = 1
               /\ QC(pcl'.brnshear) = 1
               /\ pcl'.brn = RDiv(pcl'.bplus * 10, pcl'.brnshear)]_vars

\* C27: elpres is non-missing only after an LFC was detected in the lift
\* (lfcpres non-missing), and mplpres and elhght are non-missing only if
\* elpres is.
C27_ElNeedsLfc ==
    /\ QC(pcl.elpres) = 1 => (loc.lfcs >= 1 /\ QC(pcl.lfcpres) = 1)
    /\ QC(pcl.mplpres) = 1 => QC(pcl.elpres) = 1
    /\ QC(pcl.elhght) = 1 => QC(pcl.elpres) = 1

\* C28: in the returned parcel blayer and tlayer are the bottom and the top
\* pressure of the layer the lift integrated over (the locals lower and
\* upper), however the bounds were obtained.
C28_LayerBoundsReported ==
    (ReturnedParcel /\ prof.gNumLevels >= 1) =>
        /\ pcl.blayer = loc.lower
        /\ pcl.tlayer = loc.upper

---------------------------------------------------------------------------
(* vector.py: direction and speed to components and back                   *)

\* The directions converted are the multiples of 15 degrees from -360
\* degrees up to DirSamples * 15 degrees.
DirSamples == 48

VecDirs == {k * 150 : k \in (-24)..DirSamples} \cup {RMISSD}

\* Speeds in tenths of a kt: calm, 10 kt, 25 kt, 998 kt, 1500 kt.
VecSpeeds == {0, 100, 250, 9980, 15000}

\* vec2comp is called with call.dir and call.spd, then comp2vec with what
\* it returned; loc holds the components and v's sign bit.
InitVector ==
    /\ prof = Idle
    /\ call \in [fn : {"vec2comp"}, dir : VecDirs, spd : VecSpeeds]
    /\ pc = "start"
    /\ ret = PyNone
    /\ pcl = Idle
    /\ loc = Idle

Call_vec2comp ==
    /\ pc = "start"
    /\ loc' = [uv |-> vec2comp(call.dir, call.spd),
               vneg |-> vec2comp_vneg(call.dir, call.spd)]
    /\ pc' = "components"
    /\ UNCHANGED <<prof, call, ret, pcl>>

Call_comp2vec ==
    /\ pc = "components"
    /\ ret' = comp2vec(loc.uv[1], loc.uv[2], loc.vneg)
    /\ pc' = "done"
    /\ UNCHANGED <<prof, call, pcl, loc>>

NextVector == Call_vec2comp \/ Call_comp2vec

SpecVector == InitVector /\ [][NextVector]_vars

\* The rounding of the model: half a degree, a tenth of a kt.
DirTol == 5

\* The distance of two directions around the circle.
DirDiff(a, b) == Min2(Abs(a - b) % 3600, 3600 - (Abs(a - b) % 3600))

\* C15 as stated: for every valid direction and speed, speed 0 included,
\* the round trip returns (dir mod 360, spd), the direction in [0, 360).
C15_RoundTripAnySpeed ==
    (pc = "done" /\ QC(call.dir) = 1 /\ QC(call.spd) = 1)
    => /\ ret[1] >= 0 /\ ret[1] < 3600
       /\ DirDiff(ret[1], call.dir % 3600) <= DirTol
       /\ Abs(ret[2] - call.spd) <= 1

\* C15, amended: for every valid direction and every speed above 0 and up
\* to 998 the round trip returns a direction in [0, 360] that is dir mod
\* 360 (modulo 360, up to rounding) and the speed; at speed 0 it returns the
\* direction 0 or 180.
C15_RoundTrip ==
    (pc = "done" /\ QC(call.dir) = 1)
    => /\ (call.spd > 0 /\ call.spd <= 9980)
          => /\ ret[1] >= 0 /\ ret[1] <= 3600
             /\ DirDiff(ret[1], call.dir % 3600) <= DirTol
             /\ Abs(ret[2] - call.spd) <= 1
       /\ call.spd = 0 => ret[1] \in {0, 1800} /\ ret[2] = 0

\* A direction outside [0, 360) at 25 kt has made the round trip.
C15_Witness ==
    /\ pc = "done"
    /\ call.dir = 4050
    /\ call.spd = 250
    /\ ret = <<450, 250>>

---------------------------------------------------------------------------
(* profile.py: construction of a Profile from parallel arrays              *)

\* The largest number of levels of a constructed sounding.
ProfLevels == 4

\* Wind direction (tenths of a degree) and speed (tenths of a kt) of the
\* levels of a sounding given by wdir and wspd.
WindDir == <<1800, 2250, 2700, 2700, 3150, 0, 450, 900, 1350>>

WindSpd == <<50, 100, 0, 300, 400, 450, 400, 350, 300>>

\* The keyword arguments: the arrays by name, the wind given by the pair of
\* keywords wind ("wdir": wdir and wspd, "ucomp": ucomp and vcomp), the
\* keyword uind when withuind.  The temperature is missing at the levels in
\* bad.  The array odd is one element shorter ("short") or longer ("long")
\* than pres, or not passed at all ("absent").
ProfileArray(k, n, bad) ==
    [i \in 1..n |->
        CASE k = "pres" -> LevelPres[i]
          [] k = "hght" -> LevelHght[i]
          [] k = "temp" -> IF i \in bad THEN RMISSD ELSE TempCold[i]
          [] k = "dwpt" -> IF i \in bad THEN RMISSD
                           ELSE TempCold[i] - DewDep[i]
          [] k = "wdir" -> WindDir[i]
          [] k = "wspd" -> WindSpd[i]
          [] k = "ucomp" -> WindU[i]
          [] k = "vcomp" -> WindV[i]]

ProfileKwargs(n, bad, wind, withuind, odd, how) ==
    LET names == ({"pres", "hght", "temp", "dwpt"}
                  \cup (IF wind = "wdir" THEN {"wdir", "wspd"}
                        ELSE {"ucomp", "vcomp"})
                  \cup (IF withuind THEN {"uind"} ELSE {}))
                 \ (IF how = "absent" THEN {odd} ELSE {})
        len(k) == IF k # odd THEN n
                  ELSE IF how = "short" THEN n - 1 ELSE n + 1
    IN  [k \in names |->
            IF k = "uind" THEN <<uind>> ELSE ProfileArray(k, len(k), bad)]

ProfileCalls ==
    {[fn |-> "Profile", kwargs |-> ProfileKwargs(n, bad, wind, withuind,
                                                  "none", "same")] :
        n \in 0..ProfLevels, bad \in SUBSET (1..ProfLevels),
        wind \in {"wdir", "ucomp"}, withuind \in BOOLEAN}
    \cup {[fn |-> "Profile", kwargs |-> ProfileKwargs(n, {}, wind, withuind,
                                                       odd, how)] :
            n \in 1..ProfLevels, wind \in {"wdir", "ucomp"},
            withuind \in BOOLEAN,
            odd \in {"pres", "hght", "temp", "dwpt", "wdir", "wspd",
                     "ucomp", "vcomp"},
            how \in {"short", "long", "absent"}}

\* 'k' in kwargs, and len(kwargs.get(k)) where the keyword was passed.
InKwargs(kw, k) == k \in DOMAIN kw

\* Lines 32-51: the level list built from the arrays, or the failure of the
\* loop: len(pres) with pres None, an index into None (TypeError), an index
\* past the end of an array (IndexError).
Profile_levels(kw) ==
    LET wnd1 == IF InKwargs(kw, "wdir") THEN "wdir" ELSE "ucomp"
        wnd2 == IF InKwargs(kw, "wdir") THEN "wspd" ELSE "vcomp"
        cols == <<"pres", "hght", "temp", "dwpt", wnd1, wnd2>>
        n == Len(kw["pres"])
    IN  IF ~InKwargs(kw, "pres") THEN [err |-> "TypeError"]
        ELSE IF n > 0 /\ \E j \in 1..6 : ~InKwargs(kw, cols[j])
        THEN [err |-> "TypeError"]
        ELSE IF \E j \in 1..6 : Len(kw[cols[j]]) < n
        THEN [err |-> "IndexError"]
        ELSE [err |-> "", gNumLevels |-> n,
              gSndg |-> [i \in 1..n |-> [j \in 1..6 |-> kw[cols[j]][i]]]]

\* Profile.dir2Comp with the default indices (wdirind = uind = 4, wspdind =
\* vind = 5): the two wind columns of every level are replaced by the
\* components of the direction and speed they hold.
dir2Comp(g) ==
    LET conv(l, uv) == [l EXCEPT ![uind + 1] = uv[1], ![vind + 1] = uv[2]]
    IN  [i \in 1..Len(g) |-> conv(g[i], vec2comp(g[i][uind + 1],
                                                 g[i][vind + 1]))]

InitProfile ==
    /\ prof = Idle
    /\ call \in ProfileCalls
    /\ pc = "start"
    /\ ret = PyNone
    /\ pcl = Idle
    /\ loc = Idle

\* Lines 32-51.
Profile_init_levels ==
    /\ pc = "start"
    /\ LET o == Profile_levels(call.kwargs)
       IN  IF o.err # ""
           THEN /\ pc' = "raised"
                /\ ret' = Exc
                /\ loc' = [err |-> o.err]
           ELSE /\ pc' = "levels"
                /\ ret' = ret
                /\ loc' = [gSndg |-> o.gSndg, gNumLevels |-> o.gNumLevels]
    /\ UNCHANGED <<prof, call, pcl>>

\* Lines 53-63.
Profile_init_indices ==
    /\ pc = "levels"
    /\ loc' = IF InKwargs(call.kwargs, "uind") THEN loc
              ELSE [loc EXCEPT !.gSndg = dir2Comp(@)]
    /\ pc' = "indices"
    /\ UNCHANGED <<prof, call, ret, pcl>>

\* Line 64, and the return of the constructor.
Profile_init_sfc ==
    /\ pc = "indices"
    /\ prof' = [gSndg |-> loc.gSndg, gNumLevels |-> loc.gNumLevels,
                sfc |-> get_sfc(loc.gSndg, loc.gNumLevels)]
    /\ pc' = "done"
    /\ UNCHANGED <<call, ret, pcl, loc>>

NextProfile == Profile_init_levels \/ Profile_init_indices \/ Profile_init_sfc

SpecProfile == InitProfile /\ [][NextProfile]_vars

\* The levels of the constructed sounding whose temperature is valid.
ValidTemp == {i \in 0..(prof.gNumLevels - 1) : QC(Sndg(prof, i, tind)) = 1}

Constructed == pc = "done" /\ call.fn = "Profile"

\* C11 as stated: after construction sfc is the index of the first level
\* whose temperature is valid, or 0 if the sounding has fewer than 3 levels.
C11_SfcFirstValid ==
    Constructed
    => \/ prof.gNumLevels < 3 /\ prof.sfc = 0
       \/ /\ prof.gNumLevels >= 3
          /\ prof.sfc \in ValidTemp
          /\ \A i \in ValidTemp : prof.sfc <= i

\* C11, amended: after construction sfc is 0 if the sounding has fewer than
\* 3 levels or no level with a valid temperature, and otherwise the index of
\* the first level whose temperature is valid.
C11_SfcFirstValidOrZero ==
    Constructed
    => IF prof.gNumLevels < 3 \/ ValidTemp = {} THEN prof.sfc = 0
       ELSE prof.sfc \in ValidTemp /\ \A i \in ValidTemp : prof.sfc <= i

C11_Witness ==
    /\ Constructed
    /\ prof.gNumLevels = 4
    /\ ValidTemp = {2, 3}
    /\ prof.sfc = 2

\* The arrays passed describe fewer than one level, or differ in length (an
\* array that was not passed has no length).
Malformed ==
    LET kw == call.kwargs
        cols == DOMAIN kw \ {"uind"}
    IN  \/ Cardinality(cols) < 6
        \/ \E k \in cols : Len(kw[k]) < 1
        \/ \E k1 \in cols, k2 \in cols : Len(kw[k1]) # Len(kw[k2])

\* C12: constructing a sounding from arrays that describe fewer than one
\* level or have inconsistent lengths fails, and no Profile is produced.
C12_MalformedFails ==
    (call.fn = "Profile" /\ Malformed /\ pc \in {"done", "raised"})
    => pc = "raised" /\ prof = Idle

\* C13: when ucomp and vcomp are supplied, the wind-U and wind-V stored at
\* every level equal the supplied components.
C13_ComponentsStored ==
    (Constructed /\ InKwargs(call.kwargs, "ucomp"))
    => \A i \in 0..(prof.gNumLevels - 1) :
          /\ Sndg(prof, i, uind) = call.kwargs["ucomp"][i + 1]
          /\ Sndg(prof, i, vind) = call.kwargs["vcomp"][i + 1]

---------------------------------------------------------------------------
(* winds.py: mean wind, helicity and storm motion                          *)

\* Heights (tenths of a m MSL) of the surface of the soundings.
Elevations == {Fx(0), Fx(100), Fx(500)}

\* Wind speeds (tenths of a kt) of the levels of a sounding of one direction.
WindSpd6 == <<50, 100, 170, 300, 400, 450>>

\* The sounding of 6 levels whose surface is at elev, with the wind
\* <<us[k], vs[k]>> at level k.
WindSounding(elev, us, vs) ==
    Profile([k \in 1..6 |->
                <<LevelPres[k], LevelHght[k] - LevelHght[1] + elev,
                  TempCold[k], TempCold[k] - DewDep[k], us[k], vs[k]>>])

\* The soundings whose wind <<a * WindSpd6[k], b * WindSpd6[k]>> has one
\* direction at every level (calm for a = b = 0).
Unidirectional ==
    {WindSounding(e, [k \in 1..6 |-> a * WindSpd6[k]],
                     [k \in 1..6 |-> b * WindSpd6[k]]) :
        e \in Elevations, a \in {-1, 0, 1}, b \in {-1, 0, 1}}

\* The soundings of the wind routines: those of one direction, and the
\* veering wind of the tables WindU, WindV.
WindSoundings ==
    Unidirectional \cup {WindSounding(e, WindU, WindV) : e \in Elevations}

\* Number of steps passed to mean_wind.
StepArgs == {-1, 0, 1, 5, 20, 25}

MeanWindCalls ==
    [fn : {"mean_wind"}, pbot : {Fx(1000), Fx(850), Fx(845)},
     ptop : {Fx(840), Fx(700), Fx(300), Fx(1000)}, psteps : StepArgs]

\* mean_wind(pbot, ptop, profile, psteps).
Call_mean_wind ==
    /\ pc = "start"
    /\ call.fn = "mean_wind"
    /\ ret' = mean_wind_steps(call.pbot, call.ptop, prof, call.psteps)
    /\ pc' = IF ret'[1] = Exc THEN "raised" ELSE "done"
    /\ UNCHANGED <<prof, call, pcl, loc>>

\* Layers (tenths of a m AGL) and storm motions passed to helicity.
HelicityCalls ==
    {[fn |-> "helicity", lower |-> Fx(lo), upper |-> Fx(up),
      stu |-> st[1], stv |-> st[2]] :
        lo \in {0, 500, 1000, 1500, 2000},
        up \in {1000, 2000, 3000, 6000},
        st \in {<<0, 0>>, <<50, 30>>}}

\* helicity, lines 185-201.
helicity_begin ==
    /\ pc = "start"
    /\ call.fn = "helicity"
    /\ call.lower < call.upper
    /\ loc' = helicity_bounds(call.lower, call.upper, prof, call.stu, call.stv)
    /\ pc' = "levels"
    /\ UNCHANGED <<prof, call, ret, pcl>>

\* helicity, lines 204-224; an exception leaves the routine.
helicity_finish ==
    /\ pc = "levels"
    /\ call.fn = "helicity"
    /\ loc' = helicity_integrate(loc, prof, call.stu, call.stv)
    /\ IF loc'.err
       THEN pc' = "raised" /\ ret' = <<Exc, Exc, Exc>>
       ELSE pc' = "done" /\ ret' = <<loc'.phel + loc'.nhel, loc'.phel,
                                     loc'.nhel>>
    /\ UNCHANGED <<prof, call, pcl>>

\* bunkers_right_mover(profile); loc keeps what it returned and the mean
\* wind and shear it used.
Call_bunkers_right_mover ==
    /\ pc = "start"
    /\ call.fn = "bunkers"
    /\ loc' = [right |-> bunkers_right_mover(prof)]
    /\ pc' = IF loc'.right.err THEN "raised" ELSE "right"
    /\ UNCHANGED <<prof, call, ret, pcl>>

\* bunkers_left_mover(profile) on the same profile.
Call_bunkers_left_mover ==
    /\ pc = "right"
    /\ call.fn = "bunkers"
    /\ loc' = [right |-> loc.right, left |-> bunkers_left_mover(prof)]
    /\ pc' = IF loc'.left.err THEN "raised" ELSE "done"
    /\ ret' = <<loc.right.st, loc'.left.st>>
    /\ UNCHANGED <<prof, call, pcl>>

WindCalls == MeanWindCalls \cup HelicityCalls \cup {[fn |-> "bunkers"]}

InitWinds ==
    /\ prof \in WindSoundings
    /\ call \in WindCalls
    /\ pc = "start"
    /\ ret = PyNone
    /\ pcl = Idle
    /\ loc = Idle

NextWinds ==
    \/ Call_mean_wind
    \/ helicity_begin
    \/ helicity_finish
    \/ Call_bunkers_right_mover
    \/ Call_bunkers_left_mover

SpecWinds == InitWinds /\ [][NextWinds]_vars

\* The wind of the sounding has the same direction at every level: the
\* winds of any two levels are parallel and do not oppose each other.
SameDirection ==
    \A i \in 0..(prof.gNumLevels - 1), j \in 0..(prof.gNumLevels - 1) :
        /\ Sndg(prof, i, uind) * Sndg(prof, j, vind)
             = Sndg(prof, j, uind) * Sndg(prof, i, vind)
        /\ Sndg(prof, i, uind) * Sndg(prof, j, uind)
             + Sndg(prof, i, vind) * Sndg(prof, j, vind) >= 0

LevelAGL(i) == Sndg(prof, i, zind) - Sndg(prof, prof.sfc, zind)

\* C17: helicity accumulates cross products only from sounding levels whose
\* height above ground lies within [lower, upper], for every surface
\* elevation.
C17_LevelsInsideLayer ==
    (pc = "done" /\ call.fn = "helicity")
    => \A i \in loc.used : call.lower <= LevelAGL(i) /\ LevelAGL(i) <= call.upper

\* C18: for every psteps >= 1 mean_wind returns a result, and the 2-point
\* pressure-weighted average of the winds at pbot and ptop whenever
\* int((pbot - ptop) / psteps) < 1.
C18_ThinLayerTwoPoint ==
    (pc \in {"done", "raised"} /\ call.fn = "mean_wind" /\ call.psteps >= 1)
    => /\ pc = "done"
       /\ wind_pinc(call.pbot, call.ptop, call.psteps) < 1
          => ret = mean_wind_two_point(call.pbot, call.ptop, prof)

\* C19: the right-mover and left-mover motions deviate from the same mean
\* wind by opposite vectors: right - mean = -(left - mean).
C19_OppositeDeviations ==
    (pc = "done" /\ call.fn = "bunkers")
    => /\ loc.right.mn6 = loc.left.mn6
       /\ \A k \in 1..2 :
            loc.right.st[k] - loc.right.mn6[k]
              = -(loc.left.st[k] - loc.left.mn6[k])

---------------------------------------------------------------------------
(* Sequences of calls of the core on one sounding                          *)

\* The most calls that follow the first one.
MaxCalls == 2

\* A full sounding, one with two warm levels and no dew point at its second
\* level, one without temperature at the surface and one without
\* temperature at its third level.
CoreSoundings ==
    {Profile(LevelList(5, {}, 0, 0)), Profile(LevelList(5, {2, 3}, 0, 2)),
     Profile(LevelList(4, {}, 1, 0)), Profile(LevelList(5, {}, 3, 0))}

\* Layers (tenths of a hPa) passed to the parcel-selection helpers: the
\* default one, one inside the sounding, one above its top.
CoreLayers == {<<Fx(-1), Fx(-1)>>, <<Fx(850), Fx(600)>>, <<Fx(100), Fx(50)>>}

\* The calls made on the sounding pr, the k-th of a sequence.
CoreCalls(pr, k) ==
    {[fn |-> "parcelx", lower |-> c.lower, upper |-> c.upper, pres |-> c.pres,
      temp |-> c.temp, dwpt |-> c.dwpt, seq |-> k] :
        c \in {d \in LiftCalls(pr) : d.upper = Fx(-1)}}
    \cup {[fn |-> f, lower |-> l[1], upper |-> l[2], seq |-> k] :
            f \in {"mean_mixratio", "mean_theta", "unstable_level"},
            l \in CoreLayers}
    \cup {[fn |-> "temp_lvl", temp |-> t, seq |-> k] : t \in {Fx(0), Fx(-20)}}
    \cup {[fn |-> "interp_from_pres", x |-> Fx(775), ind |-> tind, seq |-> k],
          [fn |-> "interp_from_hght", x |-> Fx(2000), ind |-> pind, seq |-> k],
          [fn |-> "mean_wind", pbot |-> Fx(850), ptop |-> Fx(500),
           psteps |-> 20, seq |-> k],
          [fn |-> "helicity", lower |-> Fx(0), upper |-> Fx(3000),
           stu |-> 0, stv |-> 0, seq |-> k],
          [fn |-> "bunkers", seq |-> k]}

\* The state in which the call c begins.
CoreEnter(c) ==
    /\ call' = c
    /\ pc' = "start"
    /\ ret' = IF c.fn = "parcelx" THEN [kind |-> "none", val |-> PyNone]
              ELSE PyNone
    /\ pcl' = IF c.fn = "parcelx"
              THEN Parcel(Fx(-1), Fx(-1), c.pres, c.temp, c.dwpt) ELSE Idle
    /\ loc' = IF c.fn = "parcelx" THEN Locals
              ELSE IF c.fn \in {"interp_from_pres", "interp_from_hght"}
              THEN [kind |-> "start", bptr |-> 0, tptr |-> -1]
              ELSE Idle

InitCore ==
    /\ prof \in CoreSoundings
    /\ call \in CoreCalls(prof, 0)
    /\ pc = "start"
    /\ ret = IF call.fn = "parcelx" THEN [kind |-> "none", val |-> PyNone]
             ELSE PyNone
    /\ pcl = IF call.fn = "parcelx"
             THEN Parcel(Fx(-1), Fx(-1), call.pres, call.temp, call.dwpt)
             ELSE Idle
    /\ loc = IF call.fn = "parcelx" THEN Locals
             ELSE IF call.fn \in {"interp_from_pres", "interp_from_hght"}
             THEN [kind |-> "start", bptr |-> 0, tptr |-> -1]
             ELSE Idle

\* The call has returned or raised, and the caller makes the next one on
\* the same sounding.
Core_next_call ==
    /\ pc \in {"done", "raised"}
    /\ call.seq < MaxCalls
    /\ \E c \in CoreCalls(prof, call.seq + 1) : CoreEnter(c)
    /\ prof' = prof

\* parcelx(lower, upper, pres, temp, dwpt, prof), one step.
Core_parcelx == call.fn = "parcelx" /\ Next

\* mean_mixratio(prof, lower, upper).
Call_mean_mixratio ==
    /\ pc = "start"
    /\ call.fn = "mean_mixratio"
    /\ prof' = layer_check(prof, call.lower, call.upper)
    /\ ret' = mean_mixratio(prof, call.lower, call.upper)
    /\ pc' = IF ret' = Exc THEN "raised" ELSE "done"
    /\ UNCHANGED <<call, pcl, loc>>

\* mean_theta(prof, lower, upper).
Call_mean_theta ==
    /\ pc = "start"
    /\ call.fn = "mean_theta"
    /\ prof' = layer_check(prof, call.lower, call.upper)
    /\ ret' = mean_theta(prof, call.lower, call.upper)
    /\ pc' = IF ret' = Exc THEN "raised" ELSE "done"
    /\ UNCHANGED <<call, pcl, loc>>

\* unstable_level(prof, lower, upper); a call whose loop of line 979 does
\* not end never returns.
Call_unstable_level ==
    /\ pc = "start"
    /\ call.fn = "unstable_level"
    /\ LET r == unstable_level(prof, call.lower, call.upper)
       IN  /\ ret' = r.val
           /\ pc' = CASE r.kind = "value" -> "done"
                      [] r.kind = "raise" -> "raised"
                      [] r.kind = "loop" -> "looping"
    /\ UNCHANGED <<prof, call, pcl, loc>>

\* temp_lvl(temp, prof).
Call_temp_lvl ==
    /\ pc = "start"
    /\ call.fn = "temp_lvl"
    /\ ret' = temp_lvl(call.temp, prof)
    /\ pc' = IF ret' = Exc THEN "raised" ELSE "done"
    /\ UNCHANGED <<prof, call, pcl, loc>>

NextCore ==
    \/ Core_next_call
    \/ Core_parcelx
    \/ Call_mean_mixratio
    \/ Call_mean_theta
    \/ Call_unstable_level
    \/ Call_temp_lvl
    \/ NextInterp
    \/ NextWinds

SpecCore == InitCore /\ [][NextCore]_vars

\* C14: no sequence of parcelx, parcel-selection helper, interpolation or
\* wind and helicity calls changes a field of a level, the level count or
\* the surface index of the sounding.
C14_SoundingReadOnly ==
    [][/\ prof'.gSndg = prof.gSndg
       /\ prof'.gNumLevels = prof.gNumLevels
       /\ prof'.sfc = prof.sfc]_vars

\* Three calls have run on the sounding, the last a parcel lift that
\* returned.
C14_Witness ==
    /\ call.seq = MaxCalls
    /\ call.fn = "parcelx"
    /\ pc = "done"
    /\ prof \in CoreSoundings

\* The candidate of unstable_level(pr, lower0, upper0) with the greatest
\* lifted wet-bulb potential temperature, the first in the order of the
\* routine (the lowest) on ties: its own pressure, for the interpolated top
\* the top of the layer upper (after lines 975-980).
MostUnstableCandidate(pr, lower0, upper0) ==
    LET sfcp   == Sndg(pr, pr.sfc, pind)
        lower1 == IF lower0 = Fx(-1) THEN sfcp ELSE lower0
        upper  == unstable_upper(pr, IF upper0 = Fx(-1) THEN sfcp - Fx(400)
                                     ELSE upper0, UnstableSteps)
        lower  == IF NotNum(i_temp(lower1, pr)) \/ QC(i_temp(lower1, pr)) = 0
                  THEN sfcp ELSE lower1
        c      == unstable_candidates(pr, lower, upper,
                                      layer_obs(pr, lower, upper, tind))
        cands  == {k \in 1..Len(c) : ~c[k].skip}
        th(k)  == unstable_thetaw(c[k].p, c[k].t, c[k].td)
        best   == CHOOSE k \in cands :
                      \A j \in cands :
                          th(j) < th(k) \/ (th(j) = th(k) /\ j >= k)
    IN  c[best].p

\* C29: unstable_level returns the pressure of the candidate with the
\* greatest lifted wet-bulb potential temperature among the interpolated
\* bottom, the levels of the layer that report a dew point and the
\* interpolated top (the lowest on ties), so upper when the top is the
\* strict maximum.
C29_MostUnstableLevel ==
    (pc = "done" /\ call.fn = "unstable_level") =>
        ret = MostUnstableCandidate(prof, call.lower, call.upper)

\* C30: temp_lvl returns the missing sentinel, or a pressure between the
\* pressures of two adjacent levels that both have a valid temperature and
\* whose temperatures bracket the target (so the lower end of the
\* interpolation never is a level without temperature); and it returns the
\* sentinel when no level above level 0 is at or below the target.
C30_TempLevelBracketed ==
    (pc = "done" /\ call.fn = "temp_lvl") =>
        /\ \/ ret = RMISSD
           \/ \E i \in 1..(prof.gNumLevels - 1) :
                  /\ QC(Sndg(prof, i - 1, tind)) = 1
                  /\ QC(Sndg(prof, i, tind)) = 1
                  /\ Sndg(prof, i, tind) <= call.temp
                  /\ call.temp <= Sndg(prof, i - 1, tind)
                  /\ Sndg(prof, i, pind) <= ret
                  /\ ret <= Sndg(prof, i - 1, pind)
        /\ (\A i \in 1..(prof.gNumLevels - 1) :
               QC(Sndg(prof, i, tind)) = 0 \/ Sndg(prof, i, tind) > call.temp)
           => ret = RMISSD

===========================================================================
